---- MODULE Spec2Model ----
(***************************************************************************)
(* A model of the inclusion-based pointer analysis of go.tools/pointer:    *)
(* the constraint generator (gen.go), the reflection intrinsics            *)
(* (reflect.go) and the worklist solver that drives their solve methods.   *)
(* The last two parts model the statement checker of go/types (stmt.go)    *)
(* and the phi insertion of go.tools/ssa (lift.go), each under a           *)
(* specification of its own.                                               *)
(*                                                                         *)
(* The Go code mutates one *analysis struct; the model keeps that struct   *)
(* in the variable a and writes every Go function as an operator that      *)
(* takes the struct and returns the struct after the call.  A function     *)
(* that returns a value leaves it in the field ret.  A Go panic sets the   *)
(* field fatal, after which no operator changes the struct any more.       *)
(*                                                                         *)
(* Node ids are the Go node ids (the first node is n0); node id n is       *)
(* a.nodes[n+1].                                                           *)
(***************************************************************************)
EXTENDS Integers, Sequences, FiniteSets, TLC

VARIABLES
    prog,   \* the loaded program (a.prog): main package, values, functions, types
    a,      \* the analysis struct (nodes, constraints, genq, cgnodes, maps, solver state)
    genned, \* history: the cgnodes genFunc has run on, in order
    check,  \* go/types: the checker while it checks the statements of a function body
    lift    \* ssa: the state of lifting one alloc of a function

vars == <<prog, a, genned, check, lift>>

\* The value of the variables of the packages a specification does not run.
Idle == <<>>

(***************************************************************************)
(* Bounds of the model.                                                    *)
(***************************************************************************)
\* Longest type (number of constructors) a solve step may create.
MaxTypeLen == 4

(***************************************************************************)
(* Types.  A type is a sequence of strings: unary constructors             *)
(* ("ptr", "chan", "chanR", "chanS", "slice", "array") followed by a base  *)
(* name; <<"func", s>> is the signature s, <<"funcCR", s>> is              *)
(* changeRecv(s), <<"params", s>> and <<"results", s>> are its tuples.     *)
(***************************************************************************)
tInvalid   == <<"invalid">>
tEface     == <<"eface">>
tUnsafePtr == <<"unsafe.Pointer">>
tInt       == <<"int">>
tString    == <<"string">>
reflectRtypePtr == <<"ptr", "reflect.rtype">>
reflectType     == <<"reflect.Type">>
reflectValue    == <<"reflect.Value">>

Unary == {"ptr", "chan", "chanR", "chanS", "slice", "array"}

\* The struct types of the universe and their fields, in declaration order.
StructTable ==
    [ T |-> << <<"ptr", "int">>, <<"ptr", "int">> >>,
      D |-> << >>,
      S |-> << <<"ptr", "int">>, <<"array", "ptr", "int">> >>,
      \* reflect.Method {Name, PkgPath string; Type Type; Func Value; Index int}
      Method |-> << tString, tString, reflectType, reflectValue, tInt >> ]

\* The map types of the universe: key and element type.
MapTable ==
    [ M  |-> [key |-> tString, elem |-> <<"ptr", "int">>],
      MI |-> [key |-> tInt,    elem |-> <<"ptr", "int">>],
      MT |-> [key |-> <<"T">>, elem |-> <<"ptr", "int">>] ]

InterfaceTypes == {"eface", "I", "reflect.Type"}

\* The signatures of the universe: receiver (<<>> for none), parameters, results.
SigTable ==
    [ main    |-> [recv |-> <<>>, params |-> <<>>, results |-> <<>>],
      G       |-> [recv |-> <<>>, params |-> << <<"ptr","int">> >>, results |-> << <<"ptr","int">> >>],
      Df      |-> [recv |-> <<"D">>, params |-> <<>>, results |-> <<>>],
      PDf     |-> [recv |-> <<"ptr","D">>, params |-> <<>>, results |-> <<>>],
      If      |-> [recv |-> <<>>, params |-> <<>>, results |-> <<>>],
      TypeOf  |-> [recv |-> <<>>, params |-> << tEface >>, results |-> << reflectType >>],
      ValueOf |-> [recv |-> <<>>, params |-> << tEface >>, results |-> << reflectValue >>],
      TtoV    |-> [recv |-> <<>>, params |-> << reflectType >>, results |-> << reflectValue >>],
      ChanOf  |-> [recv |-> <<>>, params |-> << tInt, reflectType >>, results |-> << reflectType >>],
      TItoV   |-> [recv |-> <<>>, params |-> << reflectType, tInt >>, results |-> << reflectValue >>],
      VtoI    |-> [recv |-> reflectValue, params |-> <<>>, results |-> << tEface >>],
      VtoV    |-> [recv |-> reflectValue, params |-> <<>>, results |-> << reflectValue >>],
      VVtoV   |-> [recv |-> reflectValue, params |-> << reflectValue >>, results |-> << reflectValue >>],
      RtoT    |-> [recv |-> reflectRtypePtr, params |-> <<>>, results |-> << reflectType >>],
      RMeth   |-> [recv |-> reflectRtypePtr, params |-> << tString >>, results |-> << <<"Method">>, <<"bool">> >>],
      RStr    |-> [recv |-> reflectRtypePtr, params |-> <<>>, results |-> << tString >>],
      Tm      |-> [recv |-> <<"T">>, params |-> << <<"ptr","int">> >>,
                   results |-> << <<"ptr","int">>, <<"T">> >>] ]

\* The types of the loaded program.
StructFields == prog.structs
MapTypes     == prog.maps
Sigs         == prog.sigs

\* Signature.Recv(), .Params(), .Results() of a signature type.
SigRecv(t) == IF t[1] = "funcCR" THEN <<>> ELSE Sigs[t[2]].recv
SigParams(t) ==
    IF t[1] = "funcCR" THEN << Sigs[t[2]].recv >> \o Sigs[t[2]].params
    ELSE Sigs[t[2]].params
SigResults(t) == Sigs[t[2]].results

\* Tuple elements of <<"params", s>> and <<"results", s>>.
TupleElems(t) == IF t[1] = "params" THEN Sigs[t[2]].params ELSE Sigs[t[2]].results

\* The kind of the underlying type of t.
Kind(t) ==
    IF t[1] \in Unary /\ Len(t) > 1 THEN t[1]
    ELSE IF t[1] \in {"func", "funcCR"} THEN "sig"
    ELSE IF t[1] \in {"params", "results"} THEN "tuple"
    ELSE IF t[1] \in DOMAIN StructFields THEN "struct"
    ELSE IF t[1] \in DOMAIN MapTypes THEN "map"
    ELSE IF t[1] \in InterfaceTypes THEN "iface"
    ELSE "basic"

Elem(t) == IF Kind(t) = "map" THEN MapTypes[t[1]].elem ELSE Tail(t)
Key(t) == MapTypes[t[1]].key
mustDeref(t) == Tail(t)
sliceToArray(t) == <<"array">> \o Tail(t)

RECURSIVE flatten(_)
RECURSIVE flattenAll(_)
\* The concatenation of the flattenings of a sequence of types.
flattenAll(ts) == IF ts = <<>> THEN <<>> ELSE flatten(Head(ts)) \o flattenAll(Tail(ts))

\* flatten(t): the scalar decomposition of t, one entry (the field's type)
\* per node.  Scalars are one node; structs and arrays have an identity
\* node first; tuples have none.
flatten(t) ==
    CASE Kind(t) = "struct" -> <<t>> \o flattenAll(StructFields[t[1]])
      [] Kind(t) = "array"  -> <<t>> \o flatten(Elem(t))
      [] Kind(t) = "tuple"  -> flattenAll(TupleElems(t))
      [] OTHER              -> <<t>>

sizeof(t) == Len(flatten(t))

\* offsetOf(t, index): the offset of field #index of a struct or tuple.
offsetOf(t, index) ==
    IF Kind(t) = "tuple"
    THEN Len(flattenAll(SubSeq(TupleElems(t), 1, index)))
    ELSE 1 + Len(flattenAll(SubSeq(StructFields[t[1]], 1, index)))


(***************************************************************************)
(* Small helpers for Go maps and sets.                                     *)
(***************************************************************************)
EmptyMap == [k \in {} |-> 0]
Put(m, k, v) == [x \in (DOMAIN m) \cup {k} |-> IF x = k THEN v ELSE m[x]]
Has(m, k) == k \in DOMAIN m
Range(s) == {s[i] : i \in DOMAIN s}
Min(S) == CHOOSE x \in S : \A y \in S : x <= y
Max(S) == CHOOSE x \in S : \A y \in S : x >= y
RECURSIVE Ascending(_)
\* The elements of a finite set of numbers in increasing order.
Ascending(S) == IF S = {} THEN <<>> ELSE <<Min(S)>> \o Ascending(S \ {Min(S)})
Reverse(s) == [i \in 1..Len(s) |-> s[Len(s) + 1 - i]]

(***************************************************************************)
(* Nodes, objects and constraints.                                         *)
(***************************************************************************)
\* A node without object header (node.obj == nil).
Node(typ) ==
    [typ |-> typ, hdr |-> FALSE, size |-> 0, cgn |-> 0, data |-> <<>>, flags |-> {}]

\* Object data: an ssa value, a function, a type, a string, or nil (<<>>).
DataVal(v)  == <<"val", v>>
DataFn(fn)  == <<"fn", fn>>
DataType(T) == <<"type">> \o T
DataStr(s)  == <<"str", s>>

\* A constraint; every kind uses dst, src and the fields it needs.
Con(k, dst, src) ==
    [k |-> k, dst |-> dst, src |-> src, offset |-> 0, typ |-> <<>>, cgn |-> 0,
     key |-> 0, val |-> 0, dirs |-> <<>>, name |-> "", out |-> FALSE]

\* nodes[id]
N(s, id) == s.nodes[id + 1]

\* do(s, f, x) is the method call s.f(x[1], ..., x[n]); it is defined after
\* the methods it dispatches to.
RECURSIVE do(_, _, _)

\* panic(msg): the run ends with a fatal error.
panic(s, msg) == IF s.fatal # "" THEN s ELSE [s EXCEPT !.fatal = msg]

nextNode(s) == Len(s.nodes)

\* An addOneNode that writes the node over the last slot of the table.
addOneNodeInPlace(s, typ) ==
    IF s.fatal # "" \/ s.nodes = <<>> THEN s
    ELSE [s EXCEPT !.nodes[Len(s.nodes)] = Node(typ), !.ret = Len(s.nodes) - 1]

addOneNode(s, typ) ==
    IF s.fatal # "" THEN s
    ELSE [s EXCEPT !.nodes = Append(@, Node(typ)),
                   !.pts = Append(@, {}),
                   !.prevPts = Append(@, {}),
                   !.ret = Len(s.nodes)]

RECURSIVE addNodeSeq(_, _)
\* The loop of addNodes: one node per entry of the flattening.
addNodeSeq(s, fl) ==
    IF fl = <<>> THEN s ELSE addNodeSeq(addOneNode(s, Head(fl)), Tail(fl))

\* An addNodes that returns the next id even when it made no node.
addNodesNeverZero(s, typ) ==
    LET s1 == addNodeSeq(s, flatten(typ))
    IN  [s1 EXCEPT !.ret = nextNode(s)]

addNodes(s, typ) ==
    LET id == nextNode(s)
        s1 == addNodeSeq(s, flatten(typ))
    IN  [s1 EXCEPT !.ret = IF id = nextNode(s1) THEN 0 ELSE id]

\* An endObject that writes the header on every node of the block.
endObjectEach(s, obj, cgn, data) ==
    IF s.fatal # "" THEN s
    ELSE LET size == nextNode(s) - obj
             s1 == IF size = 0 THEN addOneNode(s, tInvalid) ELSE s
         IN  [s1 EXCEPT !.nodes = [i \in 1..Len(s1.nodes) |->
                                     IF i > obj
                                     THEN [s1.nodes[i] EXCEPT !.hdr = TRUE, !.size = size,
                                                              !.cgn = cgn, !.data = data]
                                     ELSE s1.nodes[i]],
                        !.ret = obj]

\* endObject: the header is written on nodes[obj]; ret is obj, which
\* stands for the *object the Go function returns.
endObject(s, obj, cgn, data) ==
    IF s.fatal # "" THEN s
    ELSE LET size == nextNode(s) - obj
             s1 == IF size = 0 THEN addOneNode(s, tInvalid) ELSE s
         IN  [s1 EXCEPT !.nodes[obj + 1] =
                            [@ EXCEPT !.hdr = TRUE, !.size = size, !.cgn = cgn,
                                      !.data = data, !.flags = {}],
                        !.ret = obj]

\* o.flags |= f, for the object o whose header is on nodes[obj].
orFlags(s, obj, f) ==
    IF s.fatal # "" THEN s
    ELSE [s EXCEPT !.nodes[obj + 1].flags = @ \cup {f}]

addConstraint(s, c) ==
    IF s.fatal # "" THEN s
    ELSE [s EXCEPT !.constraints = Append(@, c)]

RECURSIVE addConstraints(_, _)
addConstraints(s, cs) ==
    IF cs = <<>> THEN s ELSE addConstraints(addConstraint(s, Head(cs)), Tail(cs))

\* A copy that does not look for the zero node.
copyUnchecked(s, dst, src, sz) ==
    IF src = dst \/ sz = 0 THEN s
    ELSE addConstraints(s, [i \in 1..sz |-> Con("copy", dst + i - 1, src + i - 1)])

copy(s, dst, src, sz) ==
    IF src = dst \/ sz = 0 THEN s
    ELSE IF src = 0 \/ dst = 0 THEN panic(s, "ill-typed copy")
    ELSE addConstraints(s, [i \in 1..sz |-> Con("copy", dst + i - 1, src + i - 1)])

\* An addressOf that generates no constraint.
noAddressOf(s, id, obj) == s

addressOf(s, id, obj) ==
    IF id = 0 THEN panic(s, "addressOf: zero id")
    ELSE IF obj = 0 THEN panic(s, "addressOf: zero obj")
    ELSE addConstraint(s, Con("addr", id, obj))

\* A load without its tests for node 0.
loadUnchecked(s, dst, src, offset, sz) ==
    addConstraints(s, [i \in 1..sz |->
        [Con("load", dst + i - 1, src) EXCEPT !.offset = offset + i - 1]])

load(s, dst, src, offset, sz) ==
    IF dst = 0 THEN s
    ELSE IF src = 0 THEN panic(s, "ill-typed load")
    ELSE addConstraints(s, [i \in 1..sz |->
             [Con("load", dst + i - 1, src) EXCEPT !.offset = offset + i - 1]])

store(s, dst, src, offset, sz) ==
    IF src = 0 THEN s
    ELSE IF dst = 0 THEN panic(s, "ill-typed store")
    ELSE addConstraints(s, [i \in 1..sz |->
             [Con("store", dst, src + i - 1) EXCEPT !.offset = offset + i - 1]])

offsetAddr(s, dst, src, offset) ==
    IF offset = 0 THEN copy(s, dst, src, 1)
    ELSE addConstraint(s, [Con("offsetAddr", dst, src) EXCEPT !.offset = offset])

typeAssert(s, T, dst, src) ==
    addConstraint(s, [Con("typeAssert", dst, src) EXCEPT !.typ = T])

\* A warnf that drops the warning.
warnfDropped(s, msg) == s

warnf(s, msg) ==
    IF s.fatal # "" THEN s ELSE [s EXCEPT !.warnings = Append(@, msg)]

makeCGNode(s, fn, obj, callersite) ==
    IF s.fatal # "" THEN s
    ELSE [s EXCEPT !.cgnodes = Append(@, [fn |-> fn, obj |-> obj, callersite |-> callersite]),
                   !.ret = Len(s.cgnodes) + 1]


(***************************************************************************)
(* The input programs.  V is the table of ssa values and instructions of   *)
(* all packages, Fn the table of functions; a run analyses one package.    *)
(***************************************************************************)
PtrInt == <<"ptr", "int">>

Val(kind, typ) ==
    [kind |-> kind, typ |-> typ, x |-> "", y |-> "", args |-> <<>>, n |-> 0,
     s |-> "", mode |-> "", sig |-> ""]

Alloc(typ)        == Val("Alloc", typ)
Global(typ)       == Val("Global", typ)
Function(sig)     == Val("Function", <<"func", sig>>)
Param(typ)        == Val("Param", typ)
ConstInt(k)       == [Val("Const", tInt) EXCEPT !.n = k]
ConstStr(str)     == [Val("Const", tString) EXCEPT !.s = str]
ConstNil(typ)     == [Val("Const", typ) EXCEPT !.mode = "nil"]
Deref(x, typ)     == [Val("UnOp", typ) EXCEPT !.mode = "MUL", !.x = x]
Store(addr, val)  == [Val("Store", <<>>) EXCEPT !.x = addr, !.y = val]
Return(results)   == [Val("Return", <<>>) EXCEPT !.args = results]
Jump              == Val("Jump", <<>>)
BinOp             == Val("BinOp", tInt)
Phi(edges, typ)   == [Val("Phi", typ) EXCEPT !.args = edges]
MakeInterface(x, typ) == [Val("MakeInterface", typ) EXCEPT !.x = x]
MakeMap(typ)      == Val("MakeMap", typ)
MakeChan(typ)     == Val("MakeChan", typ)
MakeSlice(typ)    == Val("MakeSlice", typ)
Convert(x, typ)   == [Val("Convert", typ) EXCEPT !.x = x]
FieldAddr(x, f, typ) == [Val("FieldAddr", typ) EXCEPT !.x = x, !.n = f]
IndexAddr(x, typ) == [Val("IndexAddr", typ) EXCEPT !.x = x]
SliceOf(x, typ)   == [Val("Slice", typ) EXCEPT !.x = x]
Index(x, typ)     == [Val("Index", typ) EXCEPT !.x = x]
Lookup(m, typ)    == [Val("Lookup", typ) EXCEPT !.x = m]
MapUpdate(m, k, v) == [Val("MapUpdate", <<>>) EXCEPT !.x = m, !.y = k, !.args = <<v>>]
\* The type of a call is the sole result, or the tuple of results.
CallType(sig) ==
    IF Len(SigTable[sig].results) = 1 THEN SigTable[sig].results[1] ELSE <<"results", sig>>
StaticCall(fn, sig, args) ==
    [Val("Call", CallType(sig)) EXCEPT !.mode = "static", !.s = fn, !.sig = sig, !.args = args]
Invoke(recv, method, sig, args) ==
    [Val("Call", CallType(sig)) EXCEPT !.mode = "invoke", !.x = recv, !.s = method,
                                       !.sig = sig, !.args = args]
DynamicCall(fv, sig, args) ==
    [Val("Call", CallType(sig)) EXCEPT !.mode = "dynamic", !.x = fv, !.sig = sig, !.args = args]
BuiltinCall(b, args, typ) ==
    [Val("Call", typ) EXCEPT !.mode = "builtin", !.s = b, !.args = args]

\* The values (globals, functions, parameters, instructions) of the universe.
ValueTable ==
    \* package alias
       ("al.a"  :> Alloc(PtrInt))
    @@ ("al.p"  :> Alloc(<<"ptr">> \o PtrInt))
    @@ ("al.s1" :> Store("al.p", "al.a"))
    @@ ("al.c"  :> Deref("al.p", PtrInt))
    @@ ("gv"    :> Global(<<"ptr">> \o PtrInt))
    @@ ("al.s2" :> Store("gv", "al.a"))
    @@ ("al.d"  :> Deref("gv", PtrInt))
    @@ ("al.t"  :> Alloc(<<"ptr", "T">>))
    @@ ("al.fa" :> FieldAddr("al.t", 1, <<"ptr">> \o PtrInt))
    @@ ("al.s3" :> Store("al.fa", "al.a"))
    @@ ("al.e"  :> Deref("al.fa", PtrInt))
    @@ ("al.ret" :> Return(<<>>))
    \* package getter
    @@ ("ge.x"  :> Alloc(PtrInt))
    @@ ("ge.y"  :> Alloc(PtrInt))
    @@ ("ge.r1" :> StaticCall("G", "G", <<"ge.x">>))
    @@ ("ge.r2" :> StaticCall("G", "G", <<"ge.y">>))
    @@ ("ge.h1" :> StaticCall("H", "G", <<"ge.x">>))
    @@ ("ge.h2" :> StaticCall("H", "G", <<"ge.y">>))
    @@ ("ge.ret" :> Return(<<>>))
    @@ ("G.p"   :> Param(PtrInt))
    @@ ("G.pr"  :> BuiltinCall("print", <<"G.p">>, <<"results", "main">>))
    @@ ("G.ret" :> Return(<<"G.p">>))
    @@ ("H.p"   :> Param(PtrInt))
    @@ ("H.j"   :> Jump)
    @@ ("H.ret" :> Return(<<"H.p">>))
    @@ ("ge.a1" :> StaticCall("A", "G", <<"ge.x">>))
    @@ ("ge.a2" :> StaticCall("A", "G", <<"ge.y">>))
    @@ ("A.p"   :> Param(PtrInt))
    @@ ("A.t"   :> Alloc(<<"ptr", "T">>))
    @@ ("A.fa"  :> FieldAddr("A.t", 1, <<"ptr">> \o PtrInt))
    @@ ("A.st"  :> Store("A.fa", "A.p"))
    @@ ("A.tv"  :> Deref("A.t", <<"T">>))
    @@ ("A.i"   :> MakeInterface("A.t", tEface))
    @@ ("A.pr"  :> BuiltinCall("print", <<"A.tv">>, <<"results", "main">>))
    @@ ("A.ret" :> Return(<<"A.p">>))
    \* package iface
    @@ ("if.d"  :> Alloc(<<"ptr", "D">>))
    @@ ("if.dv" :> Deref("if.d", <<"D">>))
    @@ ("if.i"  :> MakeInterface("if.dv", <<"I">>))
    @@ ("if.c"  :> Invoke("if.i", "f", "If", <<>>))
    @@ ("if.ret" :> Return(<<>>))
    @@ ("D.f.recv" :> Param(<<"D">>))
    @@ ("D.f.ret"  :> Return(<<>>))
    @@ ("D.g.recv" :> Param(<<"D">>))
    @@ ("D.g.ret"  :> Return(<<>>))
    \* package chanof
    @@ ("co.x"  :> Alloc(PtrInt))
    @@ ("co.i"  :> MakeInterface("co.x", tEface))
    @@ ("co.t0" :> StaticCall("reflect.TypeOf", "TypeOf", <<"co.i">>))
    @@ ("co.j0" :> Jump)
    @@ ("co.t"  :> Phi(<<"co.t0", "co.t1">>, reflectType))
    @@ ("co.dir" :> ConstInt(1))
    @@ ("co.t1" :> StaticCall("reflect.ChanOf", "ChanOf", <<"co.dir", "co.t">>))
    @@ ("co.j1" :> Jump)
    \* package methods
    @@ ("mb.d"  :> Alloc(<<"ptr", "D">>))
    @@ ("mb.i"  :> MakeInterface("mb.d", tEface))
    @@ ("mb.t"  :> StaticCall("reflect.TypeOf", "TypeOf", <<"mb.i">>))
    @@ ("mb.e"  :> Invoke("mb.t", "Elem", "RtoT", <<>>))
    @@ ("mb.g"  :> ConstStr("g"))
    @@ ("mb.m"  :> Invoke("mb.e", "MethodByName", "RMeth", <<"mb.g">>))
    @@ ("mb.ret" :> Return(<<>>))
    @@ ("PD.f.recv" :> Param(<<"ptr", "D">>))
    @@ ("PD.f.ret"  :> Return(<<>>))
    @@ ("PD.g.recv" :> Param(<<"ptr", "D">>))
    @@ ("PD.g.ret"  :> Return(<<>>))
    \* package reflect
    @@ ("re.x"  :> Alloc(PtrInt))
    @@ ("re.m"  :> MakeMap(<<"M">>))
    @@ ("re.i1" :> MakeInterface("re.m", tEface))
    @@ ("re.i2" :> MakeInterface("re.x", tEface))
    @@ ("re.j0" :> Jump)
    @@ ("re.i"  :> Phi(<<"re.i1", "re.i2">>, tEface))
    @@ ("re.t"  :> StaticCall("reflect.TypeOf", "TypeOf", <<"re.i">>))
    @@ ("re.z"  :> StaticCall("reflect.Zero", "TtoV", <<"re.t">>))
    @@ ("re.z2" :> StaticCall("reflect.Zero", "TtoV", <<"re.t">>))
    @@ ("re.ret" :> Return(<<>>))
    \* package mapindex
    @@ ("mi.x"  :> Alloc(PtrInt))
    @@ ("mi.m"  :> MakeMap(<<"M">>))
    @@ ("mi.k"  :> ConstStr("k"))
    @@ ("mi.mu" :> MapUpdate("mi.m", "mi.k", "mi.x"))
    @@ ("mi.i"  :> MakeInterface("mi.m", tEface))
    @@ ("mi.v"  :> StaticCall("reflect.ValueOf", "ValueOf", <<"mi.i">>))
    @@ ("mi.e"  :> StaticCall("(reflect.Value).MapIndex", "VVtoV", <<"mi.v", "mi.v">>))
    @@ ("mi.j"  :> StaticCall("(reflect.Value).Interface", "VtoI", <<"mi.e">>))
    @@ ("mi.ret" :> Return(<<>>))
    \* package makechan
    @@ ("mc.x"  :> Alloc(PtrInt))
    @@ ("mc.i"  :> MakeInterface("mc.x", tEface))
    @@ ("mc.t"  :> StaticCall("reflect.TypeOf", "TypeOf", <<"mc.i">>))
    @@ ("mc.n"  :> StaticCall("reflect.New", "TtoV", <<"mc.t">>))
    @@ ("mc.d"  :> ConstInt(3))
    @@ ("mc.c"  :> StaticCall("reflect.ChanOf", "ChanOf", <<"mc.d", "mc.t">>))
    @@ ("mc.b"  :> ConstInt(0))
    @@ ("mc.mc" :> StaticCall("reflect.MakeChan", "TItoV", <<"mc.c", "mc.b">>))
    @@ ("mc.mf" :> StaticCall("reflect.MakeFunc", "TItoV", <<"mc.t", "mc.b">>))
    @@ ("mc.se" :> StaticCall("reflect.Select", "TtoV", <<"mc.t">>))
    @@ ("mc.na" :> StaticCall("reflect.NewAt", "TItoV", <<"mc.t", "mc.b">>))
    @@ ("mc.ret" :> Return(<<>>))
    \* package syscall: a function that converts an unsafe.Pointer
    @@ ("sy.p"  :> Alloc(PtrInt))
    @@ ("sy.u"  :> Convert("sy.p", tUnsafePtr))
    @@ ("sy.q"  :> Convert("sy.u", <<"ptr", "T">>))
    @@ ("sy.ret" :> Return(<<>>))
    @@ ("cv.sy" :> StaticCall("syscall.f", "main", <<>>))
    \* package chandir
    @@ ("cd.x"  :> Alloc(PtrInt))
    @@ ("cd.i"  :> MakeInterface("cd.x", tEface))
    @@ ("cd.t"  :> StaticCall("reflect.TypeOf", "TypeOf", <<"cd.i">>))
    @@ ("cd.d2" :> ConstInt(2))
    @@ ("cd.d0" :> ConstInt(0))
    @@ ("cd.nd" :> BinOp)
    @@ ("cd.c2" :> StaticCall("reflect.ChanOf", "ChanOf", <<"cd.d2", "cd.t">>))
    @@ ("cd.c0" :> StaticCall("reflect.ChanOf", "ChanOf", <<"cd.d0", "cd.t">>))
    @@ ("cd.cn" :> StaticCall("reflect.ChanOf", "ChanOf", <<"cd.nd", "cd.t">>))
    @@ ("cd.fp" :> Alloc(<<"ptr", "func", "ChanOf">>))
    @@ ("cd.fs" :> Store("cd.fp", "reflect.ChanOf"))
    @@ ("cd.f"  :> Deref("cd.fp", <<"func", "ChanOf">>))
    @@ ("cd.cd" :> DynamicCall("cd.f", "ChanOf", <<"cd.d2", "cd.t">>))
    @@ ("cd.ret" :> Return(<<>>))
    \* package policy
    \* package tiny
    @@ ("ty.x"  :> Alloc(PtrInt))
    @@ ("ty.t"  :> Alloc(<<"ptr", "T">>))
    @@ ("ty.tv" :> Deref("ty.t", <<"T">>))
    @@ ("ty.c"  :> StaticCall("T.m", "Tm", <<"ty.tv", "ty.x">>))
    @@ ("ty.s"  :> Alloc(<<"ptr", "S">>))
    @@ ("ty.sf" :> FieldAddr("ty.s", 1, <<"ptr", "array", "ptr", "int">>))
    @@ ("ty.si" :> IndexAddr("ty.sf", <<"ptr", "ptr", "int">>))
    @@ ("ty.ss" :> Store("ty.si", "ty.x"))
    @@ ("ty.sd" :> Deref("ty.sf", <<"array", "ptr", "int">>))
    @@ ("ty.ix" :> Index("ty.sd", PtrInt))
    @@ ("ty.ret" :> Return(<<>>))
    @@ ("Tm.recv" :> Param(<<"T">>))
    @@ ("Tm.p"  :> Param(PtrInt))
    @@ ("Tm.ret" :> Return(<<"Tm.p", "Tm.recv">>))
    \* package policy
    @@ ("po.x"  :> Alloc(PtrInt))
    @@ ("po.g"  :> StaticCall("G", "G", <<"po.x">>))
    @@ ("po.h"  :> StaticCall("H", "G", <<"po.x">>))
    @@ ("po.l"  :> StaticCall("L", "G", <<"po.x">>))
    @@ ("po.m"  :> StaticCall("M", "G", <<"po.x">>))
    @@ ("po.k"  :> StaticCall("K", "G", <<"po.x">>))
    @@ ("po.w1" :> StaticCall("W1", "G", <<"po.x">>))
    @@ ("po.w2" :> StaticCall("W2", "G", <<"po.x">>))
    @@ ("po.w3" :> StaticCall("W2", "G", <<"po.x">>))
    @@ ("po.r"  :> StaticCall("R", "G", <<"po.x">>))
    @@ ("R.p"   :> Param(PtrInt))
    @@ ("R.c"   :> StaticCall("R", "G", <<"R.p">>))
    @@ ("R.ret" :> Return(<<"R.c">>))
    @@ ("po.ret" :> Return(<<>>))
    @@ ("L.p"   :> Param(PtrInt))
    @@ ("L.b1" :> BinOp) @@ ("L.b2" :> BinOp) @@ ("L.b3" :> BinOp) @@ ("L.b4" :> BinOp)
    @@ ("L.b5" :> BinOp) @@ ("L.b6" :> BinOp) @@ ("L.b7" :> BinOp) @@ ("L.b8" :> BinOp)
    @@ ("L.b9" :> BinOp) @@ ("L.b10" :> BinOp)
    @@ ("L.ret" :> Return(<<"L.p">>))
    @@ ("M.p"   :> Param(PtrInt))
    @@ ("M.b1" :> BinOp) @@ ("M.b2" :> BinOp) @@ ("M.b3" :> BinOp) @@ ("M.b4" :> BinOp)
    @@ ("M.b5" :> BinOp) @@ ("M.b6" :> BinOp) @@ ("M.b7" :> BinOp) @@ ("M.b8" :> BinOp)
    @@ ("M.b9" :> BinOp)
    @@ ("M.ret" :> Return(<<"M.p">>))
    @@ ("K.p"   :> Param(PtrInt))
    @@ ("K.c"   :> StaticCall("G", "G", <<"K.p">>))
    @@ ("K.ret" :> Return(<<"K.c">>))
    @@ ("W1.p"  :> Param(PtrInt))
    @@ ("W1.c"  :> StaticCall("G", "G", <<"W1.p">>))
    @@ ("W1.ret" :> Return(<<"W1.c">>))
    @@ ("W2.p"  :> Param(PtrInt))
    @@ ("W2.j"  :> Jump)
    @@ ("W2.c"  :> StaticCall("G", "G", <<"W2.p">>))
    @@ ("W2.ret" :> Return(<<"W2.c">>))
    \* package conv
    @@ ("cv.str" :> ConstStr("s"))
    @@ ("cv.b"  :> Convert("cv.str", <<"slice", "byte">>))
    @@ ("cv.p"  :> Alloc(PtrInt))
    @@ ("cv.u"  :> Convert("cv.p", tUnsafePtr))
    @@ ("cv.q"  :> Convert("cv.u", <<"ptr", "T">>))
    @@ ("cv.qd" :> Convert("cv.u", <<"ptr", "D">>))
    @@ ("cv.ms" :> MakeSlice(<<"slice">> \o PtrInt))
    @@ ("cv.p2" :> Alloc(PtrInt))
    @@ ("cv.ms2" :> MakeSlice(<<"slice">> \o PtrInt))
    @@ ("cv.ia2" :> IndexAddr("cv.ms2", <<"ptr">> \o PtrInt))
    @@ ("cv.is2" :> Store("cv.ia2", "cv.p2"))
    @@ ("cv.ap" :> BuiltinCall("append", <<"cv.ms", "cv.ms2">>, <<"slice">> \o PtrInt))
    @@ ("cv.ap1" :> BuiltinCall("append", <<"cv.ms">>, <<"slice">> \o PtrInt))
    @@ ("cv.m"  :> MakeMap(<<"M">>))
    @@ ("cv.mu" :> MapUpdate("cv.m", "cv.str", "cv.p"))
    @@ ("cv.lk" :> Lookup("cv.m", PtrInt))
    @@ ("cv.ch" :> MakeChan(<<"chan">> \o PtrInt))
    @@ ("cv.ia" :> IndexAddr("cv.ms", <<"ptr">> \o PtrInt))
    @@ ("cv.is" :> Store("cv.ia", "cv.p"))
    @@ ("cv.id" :> Deref("cv.ia", PtrInt))
    @@ ("cv.sl" :> SliceOf("cv.ms", <<"slice">> \o PtrInt))
    @@ ("cv.fa" :> FieldAddr("cv.q", 1, <<"ptr">> \o PtrInt))
    @@ ("cv.fs" :> Store("cv.fa", "cv.p"))
    @@ ("cv.tv" :> Deref("cv.q", <<"T">>))
    @@ ("cv.m2" :> MakeMap(<<"MT">>))
    @@ ("cv.mu2" :> MapUpdate("cv.m2", "cv.tv", "cv.p"))
    @@ ("cv.lk2" :> Lookup("cv.m2", PtrInt))
    @@ ("cv.n1" :> BinOp) @@ ("cv.n2" :> BinOp)
    @@ ("cv.ph" :> Phi(<<"cv.n1", "cv.n2">>, tInt))
    @@ ("cv.pl" :> BuiltinCall("println", <<"cv.ph">>, <<"results", "main">>))
    @@ ("cv.ret" :> Return(<<>>))
    @@ ("os.Args" :> Global(<<"ptr", "slice", "string">>))
    \* every package's initializer
    @@ ("init.ret" :> Return(<<>>))
    \* the functions, as values
    @@ ("G" :> Function("G")) @@ ("H" :> Function("G")) @@ ("A" :> Function("G"))
    @@ ("M" :> Function("G"))
    @@ ("D.f" :> Function("Df")) @@ ("D.g" :> Function("Df"))
    @@ ("(*D).f" :> Function("PDf")) @@ ("(*D).g" :> Function("PDf"))
    @@ ("init" :> Function("main"))
    @@ ("al.main" :> Function("main")) @@ ("ge.main" :> Function("main"))
    @@ ("if.main" :> Function("main")) @@ ("co.main" :> Function("main"))
    @@ ("mb.main" :> Function("main")) @@ ("po.main" :> Function("main"))
    @@ ("ty.main" :> Function("main")) @@ ("T.m" :> Function("Tm"))
    @@ ("cv.main" :> Function("main"))
    @@ ("L" :> Function("G")) @@ ("K" :> Function("G"))
    @@ ("R" :> Function("G"))
    @@ ("W1" :> Function("G")) @@ ("W2" :> Function("G"))
    @@ ("reflect.TypeOf" :> Function("TypeOf")) @@ ("re.main" :> Function("main"))
    @@ ("mi.main" :> Function("main")) @@ ("mc.main" :> Function("main"))
    @@ ("cd.main" :> Function("main")) @@ ("syscall.f" :> Function("main"))
    @@ ("reflect.ValueOf" :> Function("ValueOf"))
    @@ ("reflect.Zero" :> Function("TtoV")) @@ ("reflect.New" :> Function("TtoV"))
    @@ ("reflect.MakeChan" :> Function("TItoV"))
    @@ ("reflect.MakeFunc" :> Function("TItoV")) @@ ("reflect.Select" :> Function("TtoV"))
    @@ ("reflect.NewAt" :> Function("TItoV"))
    @@ ("(reflect.Value).MapIndex" :> Function("VVtoV"))
    @@ ("(reflect.Value).Interface" :> Function("VtoI"))
    @@ ("reflect.ChanOf" :> Function("ChanOf"))
    @@ ("(*reflect.rtype).Elem" :> Function("RtoT"))
    @@ ("(*reflect.rtype).MethodByName" :> Function("RMeth"))
    @@ ("(*reflect.rtype).String" :> Function("RStr"))

\* A function: its signature, parameters, blocks of instructions (<<>> for
\* an external function), Synthetic string and package.
Func(sig, params, blocks, synthetic, pkg) ==
    [sig |-> sig, params |-> params, blocks |-> blocks, synthetic |-> synthetic, pkg |-> pkg]

\* The functions of the universe.
FuncTable ==
       ("al.main" :> Func("main", <<>>,
            << <<"al.a", "al.p", "al.s1", "al.c", "al.s2", "al.d",
                 "al.t", "al.fa", "al.s3", "al.e", "al.ret">> >>, "", "alias"))
    @@ ("ge.main" :> Func("main", <<>>,
            << <<"ge.x", "ge.y", "ge.r1", "ge.r2", "ge.h1", "ge.h2", "ge.a1", "ge.a2",
                 "ge.ret">> >>, "", "getter"))
    @@ ("A" :> Func("G", <<"A.p">>, << <<"A.t", "A.fa", "A.st", "A.tv", "A.i", "A.pr", "A.ret">> >>, "", "getter"))
    @@ ("G" :> Func("G", <<"G.p">>, << <<"G.pr", "G.ret">> >>, "", "getter"))
    @@ ("H" :> Func("G", <<"H.p">>, << <<"H.j">>, <<"H.ret">> >>, "", "getter"))
    @@ ("if.main" :> Func("main", <<>>,
            << <<"if.d", "if.dv", "if.i", "if.c", "if.ret">> >>, "", "iface"))
    @@ ("D.f" :> Func("Df", <<"D.f.recv">>, << <<"D.f.ret">> >>, "", "iface"))
    @@ ("D.g" :> Func("Df", <<"D.g.recv">>, << <<"D.g.ret">> >>, "", "iface"))
    @@ ("(*D).f" :> Func("PDf", <<"PD.f.recv">>, << <<"PD.f.ret">> >>, "wrapper", "iface"))
    @@ ("(*D).g" :> Func("PDf", <<"PD.g.recv">>, << <<"PD.g.ret">> >>, "wrapper", "iface"))
    @@ ("co.main" :> Func("main", <<>>,
            << <<"co.x", "co.i", "co.t0", "co.j0">>, <<"co.t", "co.t1", "co.j1">> >>, "", "chanof"))
    @@ ("mb.main" :> Func("main", <<>>,
            << <<"mb.d", "mb.i", "mb.t", "mb.e", "mb.m", "mb.ret">> >>, "", "methods"))
    @@ ("ty.main" :> Func("main", <<>>, << <<"ty.x", "ty.t", "ty.tv", "ty.c", "ty.s", "ty.sf",
                 "ty.si", "ty.ss", "ty.sd", "ty.ix", "ty.ret">> >>,
            "", "tiny"))
    @@ ("T.m" :> Func("Tm", <<"Tm.recv", "Tm.p">>, << <<"Tm.ret">> >>, "", "tiny"))
    @@ ("po.main" :> Func("main", <<>>,
            << <<"po.x", "po.g", "po.h", "po.l", "po.m", "po.k", "po.w1", "po.w2", "po.w3",
                 "po.r",
                 "po.ret">> >>, "", "policy"))
    @@ ("L" :> Func("G", <<"L.p">>,
            << <<"L.b1", "L.b2", "L.b3", "L.b4", "L.b5", "L.b6", "L.b7", "L.b8", "L.b9",
                 "L.b10", "L.ret">> >>, "", "policy"))
    @@ ("M" :> Func("G", <<"M.p">>,
            << <<"M.b1", "M.b2", "M.b3", "M.b4", "M.b5", "M.b6", "M.b7", "M.b8", "M.b9",
                 "M.ret">> >>, "", "policy"))
    @@ ("K" :> Func("G", <<"K.p">>, << <<"K.c", "K.ret">> >>, "", "policy"))
    @@ ("R" :> Func("G", <<"R.p">>, << <<"R.c", "R.ret">> >>, "", "policy"))
    @@ ("W1" :> Func("G", <<"W1.p">>, << <<"W1.c", "W1.ret">> >>, "wrapper", "policy"))
    @@ ("W2" :> Func("G", <<"W2.p">>, << <<"W2.j">>, <<"W2.c", "W2.ret">> >>, "wrapper", "policy"))
    @@ ("cv.main" :> Func("main", <<>>,
            << <<"cv.b", "cv.p", "cv.u", "cv.q", "cv.qd", "cv.ms", "cv.p2", "cv.ms2", "cv.ia2", "cv.is2", "cv.ap", "cv.ap1", "cv.m", "cv.mu", "cv.lk",
                 "cv.ch", "cv.sy", "cv.ia", "cv.is", "cv.id", "cv.sl", "cv.fa", "cv.fs", "cv.tv", "cv.m2", "cv.mu2", "cv.lk2", "cv.n1", "cv.n2", "cv.ph", "cv.pl", "cv.ret">> >>, "", "conv"))
    @@ ("init" :> Func("main", <<>>, << <<"init.ret">> >>, "package initializer", "*"))
    @@ ("re.main" :> Func("main", <<>>,
            << <<"re.x", "re.m", "re.i1", "re.i2", "re.j0">>,
               <<"re.i", "re.t", "re.z", "re.z2", "re.ret">> >>, "", "reflect"))
    @@ ("mi.main" :> Func("main", <<>>,
            << <<"mi.x", "mi.m", "mi.mu", "mi.i", "mi.v", "mi.e", "mi.j", "mi.ret">> >>,
            "", "mapindex"))
    @@ ("mc.main" :> Func("main", <<>>,
            << <<"mc.x", "mc.i", "mc.t", "mc.n", "mc.c", "mc.mc", "mc.mf", "mc.se",
                 "mc.na", "mc.ret">> >>,
            "", "makechan"))
    @@ ("syscall.f" :> Func("main", <<>>, << <<"sy.p", "sy.u", "sy.q", "sy.ret">> >>,
            "", "syscall"))
    @@ ("cd.main" :> Func("main", <<>>,
            << <<"cd.x", "cd.i", "cd.t", "cd.nd", "cd.c2", "cd.c0", "cd.cn",
                 "cd.fp", "cd.fs", "cd.f", "cd.cd", "cd.ret">> >>,
            "", "chandir"))
    @@ ("reflect.TypeOf" :> Func("TypeOf", <<>>, <<>>, "", "reflect"))
    @@ ("reflect.ValueOf" :> Func("ValueOf", <<>>, <<>>, "", "reflect"))
    @@ ("reflect.Zero" :> Func("TtoV", <<>>, <<>>, "", "reflect"))
    @@ ("reflect.New" :> Func("TtoV", <<>>, <<>>, "", "reflect"))
    @@ ("reflect.MakeChan" :> Func("TItoV", <<>>, <<>>, "", "reflect"))
    @@ ("reflect.MakeFunc" :> Func("TItoV", <<>>, <<>>, "", "reflect"))
    @@ ("reflect.Select" :> Func("TtoV", <<>>, <<>>, "", "reflect"))
    @@ ("reflect.NewAt" :> Func("TItoV", <<>>, <<>>, "", "reflect"))
    @@ ("(reflect.Value).MapIndex" :> Func("VVtoV", <<>>, <<>>, "", "reflect"))
    @@ ("(reflect.Value).Interface" :> Func("VtoI", <<>>, <<>>, "", "reflect"))
    @@ ("reflect.ChanOf" :> Func("ChanOf", <<>>, <<>>, "", "reflect"))
    @@ ("(*reflect.rtype).Elem" :> Func("RtoT", <<>>, <<>>, "", "reflect"))
    @@ ("(*reflect.rtype).MethodByName" :> Func("RMeth", <<>>, <<>>, "", "reflect"))
    @@ ("(*reflect.rtype).String" :> Func("RStr", <<>>, <<>>, "", "reflect"))

\* The program the analysis is run on: the universe with its entry package.
Program(main) ==
    [main |-> main, values |-> ValueTable, funcs |-> FuncTable,
     sigs |-> SigTable, structs |-> StructTable, maps |-> MapTable]

\* The values and functions of the loaded program.
V  == prog.values
Fn == prog.funcs

\* fn.Signature
Signature(fn) == <<"func", Fn[fn].sig>>

\* T.MethodSet(), as the functions prog.Method gives for its selections.
MethodSet(T) ==
    IF T = <<"D">> THEN <<"D.f", "D.g">>
    ELSE IF T = <<"ptr", "D">> THEN <<"(*D).f", "(*D).g">>
    ELSE IF T = reflectRtypePtr
         THEN <<"(*reflect.rtype).Elem", "(*reflect.rtype).MethodByName",
                "(*reflect.rtype).String">>
    ELSE <<>>

\* The name of the method that a function of a method set implements.
MethodName(fn) ==
    CASE fn \in {"D.f", "(*D).f"} -> "f"
      [] fn \in {"D.g", "(*D).g"} -> "g"
      [] fn = "(*reflect.rtype).Elem" -> "Elem"
      [] fn = "(*reflect.rtype).MethodByName" -> "MethodByName"
      [] fn = "(*reflect.rtype).String" -> "String"
      [] OTHER -> ""

\* The packages: main function ("" if it has none), whether the program
\* imports reflect and os.
Pkg(main, usesReflect, usesOs) == [main |-> main, reflect |-> usesReflect, os |-> usesOs]
Packages ==
    [ alias   |-> Pkg("al.main", FALSE, FALSE),
      getter  |-> Pkg("ge.main", FALSE, FALSE),
      iface   |-> Pkg("if.main", FALSE, FALSE),
      chanof  |-> Pkg("co.main", TRUE, FALSE),
      methods |-> Pkg("mb.main", TRUE, FALSE),
      reflect |-> Pkg("re.main", TRUE, FALSE),
      mapindex |-> Pkg("mi.main", TRUE, FALSE),
      makechan |-> Pkg("mc.main", TRUE, FALSE),
      chandir |-> Pkg("cd.main", TRUE, FALSE),
      policy  |-> Pkg("po.main", FALSE, FALSE),
      conv    |-> Pkg("cv.main", FALSE, TRUE),
      tiny    |-> Pkg("ty.main", FALSE, FALSE),
      lib     |-> Pkg("", FALSE, FALSE) ]

\* config.Mains: one entry package, a package listed twice, or a package
\* followed by one that has no main function.
Configs ==
    {<<p>> : p \in DOMAIN Packages} \cup {<<"tiny", "tiny">>, <<"tiny", "lib">>}

\* config.Queries: the queried values and whether the query is indirect.
Queries ==
    [v \in {"al.a", "al.c", "al.d", "al.e", "al.t", "gv", "ge.x", "ge.y", "ge.r1", "ge.r2",
            "ge.h1", "ge.h2", "if.i", "if.d", "co.t", "mb.i", "mb.e", "mb.d", "co.x", "co.i",
            "po.x", "po.g", "cv.p", "cv.q", "cv.b", "cv.ms", "cv.ap", "cv.m", "cv.lk",
            "cv.ch", "re.i", "re.t", "re.z", "mi.v", "mi.e", "mi.j", "mc.t", "mc.n", "mc.c",
            "mc.mc", "mc.mf", "mc.se", "mc.na", "ge.a1", "ge.a2", "G.p", "A.t", "A.tv", "A.i", "re.i1", "re.i2", "po.m", "po.l",
            "cv.qd", "re.x",
            "re.m", "mi.x", "mi.m", "mi.i", "mc.x", "mc.i", "cv.ph", "cv.pl",
            "cv.ia", "cv.id", "cv.sl", "al.fa",
            "cv.tv", "cv.m2", "cv.lk2", "cv.str",
            "cv.p2", "cv.ms2", "cv.ap1", "re.z2",
            "cd.x", "cd.i", "cd.t", "cd.c2", "cd.c0", "cd.cn", "cd.fp", "cd.f", "cd.cd",
            "sy.p", "sy.q", "ty.x", "ty.t", "ty.tv", "ty.c", "Tm.recv", "Tm.p", "A.p", "H.p",
            "ty.s", "ty.sf", "ty.si", "ty.sd", "ty.ix"}
          |-> FALSE]
    @@ [v \in {"al.p"} |-> TRUE]


(***************************************************************************)
(* Node creation (gen.go).                                                 *)
(***************************************************************************)
makeFunctionObject(s, fn, callersite) ==
    LET obj == nextNode(s)
        s1  == makeCGNode(s, fn, obj, callersite)
        cgn == s1.ret
        sig == Fn[fn].sig
        s2  == addOneNode(s1, <<"func", sig>>)
        s3  == IF Sigs[sig].recv # <<>> THEN addNodes(s2, Sigs[sig].recv) ELSE s2
        s4  == addNodes(s3, <<"params", sig>>)
        s5  == addNodes(s4, <<"results", sig>>)
        s6  == orFlags(endObject(s5, obj, cgn, DataFn(fn)), obj, "Function")
    IN  IF s.fatal # "" THEN s
        ELSE [s6 EXCEPT !.genq = Append(@, cgn), !.ret = obj]

makeTagged(s, typ, cgn, data) ==
    LET s1  == addOneNode(s, typ)
        obj == s1.ret
        s2  == addNodes(s1, typ)
        s3  == orFlags(endObject(s2, obj, cgn, data), obj, "Tagged")
    IN  IF s.fatal # "" THEN s ELSE [s3 EXCEPT !.ret = obj]

\* A makeRtype that does not look T up in a.rtypes.
makeRtypeFresh(s, T) ==
    IF s.fatal # "" THEN s
    ELSE LET obj == nextNode(s)
             s1  == endObject(addOneNode(s, T), obj, 0, DataType(T))
             s2  == do(s1, "makeTagged", <<reflectRtypePtr, 0, DataType(T)>>)
             id  == s2.ret
             s3  == [s2 EXCEPT !.nodes[id + 2].typ = T]
             s4  == addressOf(s3, id + 1, obj)
         IN  [s4 EXCEPT !.rtypes = Put(@, T, id), !.ret = id]

makeRtype(s, T) ==
    IF s.fatal # "" THEN s
    ELSE IF Has(s.rtypes, T) THEN [s EXCEPT !.ret = s.rtypes[T]]
    ELSE LET obj == nextNode(s)
             s1  == endObject(addOneNode(s, T), obj, 0, DataType(T))
             s2  == do(s1, "makeTagged", <<reflectRtypePtr, 0, DataType(T)>>)
             id  == s2.ret
             s3  == [s2 EXCEPT !.nodes[id + 2].typ = T]
             s4  == addressOf(s3, id + 1, obj)
         IN  [s4 EXCEPT !.rtypes = Put(@, T, id), !.ret = id]

\* taggedValue(id): tDyn is <<>> if the object is not tagged; nilobj says
\* that nodes[id] has no object header (the Go code dereferences nil).
taggedValue(s, id) ==
    LET n == N(s, id)
    IN  [tDyn |-> IF "Tagged" \in n.flags THEN n.typ ELSE <<>>,
         v |-> id + 1,
         indirect |-> "Indirect" \in n.flags,
         nilobj |-> ~n.hdr]

\* rtypeTaggedValue(obj) panics unless obj is a *reflect.rtype-tagged object.
rtypeTaggedOk(s, obj) ==
    N(s, obj).hdr /\ taggedValue(s, obj).tDyn = reflectRtypePtr
rtypeTaggedValue(s, obj) == N(s, taggedValue(s, obj).v).typ

isFunctionObject(s, id) == N(s, id).hdr /\ "Function" \in N(s, id).flags

\* funcParams and funcResults panic unless isFunctionObject(id).
funcParams(s, id) == id + 1
\* A funcResults that forgets the receiver block.
funcResultsNoRecv(s, id) == id + 1 + sizeof(<<"params", N(s, id).typ[2]>>)

funcResults(s, id) ==
    LET sig == N(s, id).typ
    IN  id + 1 + sizeof(<<"params", sig[2]>>)
           + (IF SigRecv(sig) # <<>> THEN sizeof(SigRecv(sig)) ELSE 0)

RECURSIVE valueNodeAll(_, _)

\* for each method of the method set: a.valueNode(a.prog.Method(...))
valueNodeAll(s, fns) ==
    IF fns = <<>> THEN s ELSE valueNodeAll(do(s, "valueNode", <<Head(fns)>>), Tail(fns))

setValueNode(s, v, id, cgn) ==
    IF s.fatal # "" THEN s
    ELSE LET s1 == IF cgn # 0 THEN [s EXCEPT !.localval = Put(@, v, id)]
                   ELSE [s EXCEPT !.globalval = Put(@, v, id)]
         IN  IF ~Has(Queries, v) THEN s1
             ELSE IF Queries[v]
             THEN LET s2  == addNodes(s1, V[v].typ)
                      tmp == s2.ret
                      s3  == do(s2, "genLoad", <<cgn, tmp, v, 0, sizeof(V[v].typ)>>)
                  IN  IF s3.fatal # "" THEN s3
                      ELSE [s3 EXCEPT !.queries = @ \cup {<<v, cgn, tmp>>}]
             ELSE [s1 EXCEPT !.queries = @ \cup {<<v, cgn, id>>}]

valueNode(s, v) ==
    IF s.fatal # "" THEN s
    ELSE IF Has(s.localval, v) THEN [s EXCEPT !.ret = s.localval[v]]
    ELSE IF Has(s.globalval, v) THEN [s EXCEPT !.ret = s.globalval[v]]
    ELSE LET s1 == addOneNode(s, V[v].typ)
             id == s1.ret
             s2 == do(s1, "objectNode", <<0, v>>)
             s3 == IF s2.ret # 0 THEN addressOf(s2, id, s2.ret) ELSE s2
             s4 == do(s3, "setValueNode", <<v, id, 0>>)
         IN  IF s4.fatal # "" THEN s4 ELSE [s4 EXCEPT !.ret = id]

\* objlog is history: every (value, contour, object) objectNode has found.
objectNode(s, cgn, v) ==
    IF s.fatal # "" THEN s
    ELSE IF cgn = 0
    THEN IF Has(s.globalobj, v) THEN [s EXCEPT !.ret = s.globalobj[v]]
         ELSE LET obj == nextNode(s)
                  s1 ==
                    CASE V[v].kind = "Global" ->
                           endObject(addNodes(s, mustDeref(V[v].typ)), obj, 0, DataVal(v))
                      [] V[v].kind = "Function" ->
                           do(s, "makeFunctionObject", <<v, 0>>)
                      [] V[v].kind = "Const" /\ Kind(V[v].typ) = "slice" /\ V[v].mode # "nil" ->
                           endObject(addNodes(s, sliceToArray(V[v].typ)), obj, 0, DataVal(v))
                      [] OTHER -> [s EXCEPT !.ret = 0]
              IN  IF s1.fatal # "" THEN s1
                  ELSE [s1 EXCEPT !.globalobj = Put(@, v, s1.ret),
                                  !.objlog = IF s1.ret = 0 THEN @ ELSE @ \cup {<<v, 0, s1.ret>>}]
    ELSE IF Has(s.localobj, v) THEN [s EXCEPT !.ret = s.localobj[v]]
    ELSE LET obj == nextNode(s)
             s1 ==
               CASE V[v].kind = "Alloc" ->
                      endObject(addNodes(s, mustDeref(V[v].typ)), obj, cgn, DataVal(v))
                 [] V[v].kind = "MakeSlice" ->
                      endObject(addNodes(s, sliceToArray(V[v].typ)), obj, cgn, DataVal(v))
                 [] V[v].kind = "MakeChan" ->
                      endObject(addNodes(s, Elem(V[v].typ)), obj, cgn, DataVal(v))
                 [] V[v].kind = "MakeMap" ->
                      endObject(addNodes(addNodes(s, Key(V[v].typ)), Elem(V[v].typ)),
                                obj, cgn, DataVal(v))
                 [] V[v].kind = "MakeInterface" ->
                      LET tConc == V[V[v].x].typ
                          m1 == valueNodeAll(s, MethodSet(tConc))
                          m2 == do(m1, "makeTagged", <<tConc, cgn, DataVal(v)>>)
                          o  == m2.ret
                          m3 == do(m2, "valueNode", <<V[v].x>>)
                          m4 == IF m3.ret # 0 THEN copy(m3, o + 1, m3.ret, sizeof(tConc))
                                ELSE m3
                      IN  IF m4.fatal # "" THEN m4 ELSE [m4 EXCEPT !.ret = o]
                 [] V[v].kind = "FieldAddr" ->
                      LET f1 == do(s, "objectNode", <<cgn, V[v].x>>)
                      IN  IF f1.fatal # "" \/ f1.ret = 0 THEN [f1 EXCEPT !.ret = 0]
                          ELSE [f1 EXCEPT !.ret =
                                   f1.ret + offsetOf(mustDeref(V[V[v].x].typ), V[v].n)]
                 [] V[v].kind = "IndexAddr" ->
                      LET f1 == do(s, "objectNode", <<cgn, V[v].x>>)
                      IN  IF f1.fatal # "" \/ f1.ret = 0 THEN [f1 EXCEPT !.ret = 0]
                          ELSE [f1 EXCEPT !.ret = f1.ret + 1]
                 [] V[v].kind = "Slice" -> do(s, "objectNode", <<cgn, V[v].x>>)
                 [] OTHER -> [s EXCEPT !.ret = 0]
         IN  IF s1.fatal # "" THEN s1
             ELSE [s1 EXCEPT !.localobj = Put(@, v, s1.ret),
                             !.objlog = IF s1.ret = 0 THEN @ ELSE @ \cup {<<v, cgn, s1.ret>>}]

\* A genLoad whose pre-applied copy forgets the offset.
genLoadAtHead(s, cgn, result, ptr, offset, sz) ==
    LET s1 == do(s, "objectNode", <<cgn, ptr>>)
    IN  IF s1.fatal # "" THEN s1
        ELSE IF s1.ret # 0 THEN copy(s1, result, s1.ret, sz)
        ELSE LET s2 == do(s1, "valueNode", <<ptr>>)
             IN  load(s2, result, s2.ret, offset, sz)

\* A genLoad whose pre-applied copy starts after the block it should read.
genLoadPastEnd(s, cgn, result, ptr, offset, sz) ==
    LET s1 == do(s, "objectNode", <<cgn, ptr>>)
    IN  IF s1.fatal # "" THEN s1
        ELSE IF s1.ret # 0 THEN copy(s1, result, s1.ret + offset + sz, sz)
        ELSE LET s2 == do(s1, "valueNode", <<ptr>>)
             IN  load(s2, result, s2.ret, offset, sz)

genLoad(s, cgn, result, ptr, offset, sz) ==
    LET s1 == do(s, "objectNode", <<cgn, ptr>>)
    IN  IF s1.fatal # "" THEN s1
        ELSE IF s1.ret # 0 THEN copy(s1, result, s1.ret + offset, sz)
        ELSE LET s2 == do(s1, "valueNode", <<ptr>>)
             IN  load(s2, result, s2.ret, offset, sz)

genOffsetAddr(s, cgn, v, ptr, offset) ==
    LET s1  == do(s, "valueNode", <<v>>)
        dst == s1.ret
        s2  == do(s1, "objectNode", <<cgn, v>>)
    IN  IF s2.fatal # "" THEN s2
        ELSE IF s2.ret # 0 THEN addressOf(s2, dst, s2.ret)
        ELSE offsetAddr(s2, dst, ptr, offset)

\* A genStore whose pre-applied copy forgets the offset.
genStoreAtHead(s, cgn, ptr, val, offset, sz) ==
    LET s1 == do(s, "objectNode", <<cgn, ptr>>)
    IN  IF s1.fatal # "" THEN s1
        ELSE IF s1.ret # 0 THEN copy(s1, s1.ret, val, sz)
        ELSE LET s2 == do(s1, "valueNode", <<ptr>>)
             IN  store(s2, s2.ret, val, offset, sz)

genStore(s, cgn, ptr, val, offset, sz) ==
    LET s1 == do(s, "objectNode", <<cgn, ptr>>)
    IN  IF s1.fatal # "" THEN s1
        ELSE IF s1.ret # 0 THEN copy(s1, s1.ret + offset, val, sz)
        ELSE LET s2 == do(s1, "valueNode", <<ptr>>)
             IN  store(s2, s2.ret, val, offset, sz)

\* genLoad, genOffsetAddr and genStore without the pre-applied case: the
\* constraint is always the complex one, against valueNode(ptr).
genLoadPlain(s, cgn, result, ptr, offset, sz) ==
    LET s2 == do(s, "valueNode", <<ptr>>)
    IN  load(s2, result, s2.ret, offset, sz)

genOffsetAddrPlain(s, cgn, v, ptr, offset) ==
    LET s1 == do(s, "valueNode", <<v>>)
    IN  offsetAddr(s1, s1.ret, ptr, offset)

genStorePlain(s, cgn, ptr, val, offset, sz) ==
    LET s2 == do(s, "valueNode", <<ptr>>)
    IN  store(s2, s2.ret, val, offset, sz)

\* valueOffsetNode panics when the value has node 0.
valueOffsetNode(s, v, index) ==
    LET s1 == do(s, "valueNode", <<v>>)
    IN  IF s1.fatal # "" THEN s1
        ELSE IF s1.ret = 0 THEN panic(s1, "cannot offset within n0")
        ELSE [s1 EXCEPT !.ret = s1.ret + offsetOf(V[v].typ, index)]

copyElems(s, cgn, typ, dst, src) ==
    LET s1  == addNodes(s, typ)
        tmp == s1.ret
        sz  == sizeof(typ)
        s2  == do(s1, "genLoad", <<cgn, tmp, src, 1, sz>>)
    IN  do(s2, "genStore", <<cgn, dst, tmp, 1, sz>>)


(***************************************************************************)
(* Constraint generation (gen.go).                                         *)
(***************************************************************************)
genConv(s, conv, cgn) ==
    LET s1   == do(s, "valueNode", <<conv>>)
        res  == s1.ret
        tSrc == V[V[conv].x].typ
        tDst == V[conv].typ
        parentPkg == Fn[s.cgnodes[cgn].fn].pkg
    IN  IF s1.fatal # "" \/ res = 0 THEN s1
        ELSE IF Kind(tSrc) = "slice" THEN s1
        ELSE IF Kind(tSrc) = "ptr" /\ tDst = tUnsafePtr THEN s1
        ELSE IF Kind(tSrc) = "basic" /\ Kind(tDst) = "ptr" /\ tSrc = tUnsafePtr
        THEN LET s2  == IF parentPkg # "syscall"
                        THEN warnf(s1, <<"unsound: unsafe.Pointer conversion", conv>>)
                        ELSE s1
                 s3  == addNodes(s2, mustDeref(tDst))
                 obj == s3.ret
             IN  addressOf(endObject(s3, obj, cgn, DataVal(conv)), res, obj)
        ELSE IF Kind(tSrc) = "basic" /\ Kind(tDst) = "slice" /\ tSrc = tString
        THEN LET s3  == addNodes(s1, sliceToArray(tDst))
                 obj == s3.ret
             IN  addressOf(endObject(s3, obj, cgn, DataVal(conv)), res, obj)
        ELSE IF Kind(tSrc) = "basic" /\ Kind(tDst) = "basic" THEN s1
        ELSE panic(s1, "illegal *ssa.Convert")

\* A genAppend that never allocates: z = x and nothing else.
genAppendCopyOnly(s, instr, cgn) ==
    LET s1 == do(s, "valueNode", <<instr>>)
        s2 == do(s1, "valueNode", <<V[instr].args[1]>>)
    IN  copy(s2, s1.ret, s2.ret, 1)

genAppend(s, instr, cgn) ==
    LET x  == V[instr].args[1]
        s1 == do(s, "valueNode", <<instr>>)
        s2 == do(s1, "valueNode", <<x>>)
        s3 == copy(s2, s1.ret, s2.ret, 1)
    IN  IF Len(V[instr].args) = 1 THEN s3
        ELSE LET y      == V[instr].args[2]
                 tArray == sliceToArray(V[x].typ)
                 w      == nextNode(s3)
                 s4     == endObject(addNodes(s3, tArray), w, cgn, DataVal(instr))
                 s5     == do(s4, "copyElems", <<cgn, Elem(tArray), instr, y>>)
                 s6     == do(s5, "valueNode", <<instr>>)
             IN  addressOf(s6, s6.ret, w)

\* A lookup that never finds the probe of a call.
noProbe(s, instr) == 0

\* a.probes[call]: the canonical probe node of a print call, 0 if none yet.
probeOf(s, instr) == IF Has(s.probes, instr) THEN s.probes[instr] ELSE 0

genBuiltinCall(s, instr, cgn) ==
    LET call == V[instr]
    IN  CASE call.s = "append" -> do(s, "genAppend", <<instr, cgn>>)
          [] call.s = "copy" ->
               do(s, "copyElems", <<cgn, Elem(V[call.args[1]].typ), call.args[1], call.args[2]>>)
          [] call.s = "panic" ->
               LET s1 == do(s, "valueNode", <<call.args[1]>>)
               IN  copy(s1, s.panicNode, s1.ret, 1)
          [] call.s = "recover" ->
               LET s1 == do(s, "valueNode", <<instr>>)
               IN  copy(s1, s1.ret, s.panicNode, 1)
          [] call.s = "print" ->
               IF ~s.config.print THEN s
               ELSE LET probe0 == probeOf(s, instr)
                        t  == V[call.args[1]].typ
                        s1 == IF probe0 = 0
                              THEN LET n1 == addNodes(s, t)
                                   IN  IF n1.fatal # "" THEN n1
                                       ELSE [n1 EXCEPT !.probes = Put(@, instr, n1.ret),
                                                       !.printLog = Append(@, instr)]
                              ELSE s
                        probe == IF probe0 = 0 THEN s1.ret ELSE probe0
                        s2 == do(s1, "valueNode", <<call.args[1]>>)
                    IN  copy(s2, probe, s2.ret, sizeof(t))
          [] OTHER -> s

\* The table of intrinsics: the implementation registered for a function
\* ("" when it has none).
findIntrinsic(fn) ==
    CASE fn = "reflect.TypeOf" -> "ext.reflect.TypeOf"
      [] fn = "reflect.ChanOf" -> "ext.reflect.ChanOf"
      [] fn = "reflect.ValueOf" -> "ext.reflect.ValueOf"
      [] fn = "reflect.Zero" -> "ext.reflect.Zero"
      [] fn = "reflect.New" -> "ext.reflect.New"
      [] fn = "reflect.MakeChan" -> "ext.reflect.MakeChan"
      [] fn = "reflect.MakeFunc" -> "ext.reflect.MakeFunc"
      [] fn = "reflect.Select" -> "ext.reflect.Select"
      [] fn = "reflect.NewAt" -> "ext.reflect.NewAt"
      [] fn = "(reflect.Value).MapIndex" -> "ext.reflect.Value.MapIndex"
      [] fn = "(reflect.Value).Interface" -> "ext.reflect.Value.Interface"
      [] fn = "(*reflect.rtype).Elem" -> "ext.reflect.rtype.Elem"
      [] fn = "(*reflect.rtype).MethodByName" -> "ext.reflect.rtype.MethodByName"
      [] OTHER -> ""

\* A call instruction whose callee is not a built-in.
isNonBuiltinCall(instr) == V[instr].kind = "Call" /\ V[instr].mode # "builtin"

\* The context-sensitivity policy that puts the test for synthetic
\* wrappers before the tests on the size of the function.
wrappersFirst(fn) ==
    \/ findIntrinsic(fn) # ""
    \/ Fn[fn].synthetic # "" /\ fn # "init"
    \/ /\ Len(Fn[fn].blocks) = 1
       /\ Len(Fn[fn].blocks[1]) <= 10
       /\ \A i \in 1..Len(Fn[fn].blocks[1]) : ~isNonBuiltinCall(Fn[fn].blocks[1][i])

\* The policy that analyses no function in context.
neverUseContext(fn) == FALSE

\* The policy that leaves out the test for calls in the function's body.
callsAllowed(fn) ==
    \/ findIntrinsic(fn) # ""
    \/ Len(Fn[fn].blocks) = 1 /\ Len(Fn[fn].blocks[1]) <= 10

shouldUseContext(fn) ==
    IF findIntrinsic(fn) # "" THEN TRUE
    ELSE IF Len(Fn[fn].blocks) # 1 THEN FALSE
    ELSE IF Len(Fn[fn].blocks[1]) > 10 THEN FALSE
    ELSE IF Fn[fn].synthetic # "" /\ fn # "init" THEN TRUE
    ELSE \A i \in 1..Len(Fn[fn].blocks[1]) : ~isNonBuiltinCall(Fn[fn].blocks[1][i])

RECURSIVE copyArgs(_, _, _, _)
\* for i, arg := range args: copy(params, valueNode(arg), sz); params += sz
copyArgs(s, params, args, types) ==
    IF args = <<>> \/ s.fatal # "" THEN s
    ELSE LET sz == sizeof(Head(types))
             s1 == do(s, "valueNode", <<Head(args)>>)
         IN  copyArgs(copy(s1, params, s1.ret, sz), params + sz, Tail(args), Tail(types))

setTargets(s, site, targets) ==
    IF s.fatal # "" THEN s ELSE [s EXCEPT !.sites[site].targets = targets]

genStaticCall(s, caller, site, instr, result) ==
    LET call == V[instr]
        fn   == call.s
        s1   == IF shouldUseContext(fn) THEN do(s, "makeFunctionObject", <<fn, site>>)
                ELSE do(s, "objectNode", <<0, fn>>)
        obj  == s1.ret
        sig  == Sigs[call.sig]
        s2   == addOneNode(s1, <<"func", call.sig>>)
        targets == s2.ret
        s3   == addressOf(s2, targets, obj)
        params == funcParams(s3, obj)
        hasRecv == sig.recv # <<>>
        s4   == IF hasRecv
                THEN LET r1 == do(s3, "valueNode", <<call.args[1]>>)
                     IN  copy(r1, params, r1.ret, sizeof(sig.recv))
                ELSE s3
        params2 == IF hasRecv THEN params + sizeof(sig.recv) ELSE params
        args == IF hasRecv THEN Tail(call.args) ELSE call.args
        s5   == copyArgs(s4, params2, args, sig.params)
        s6   == IF result # 0
                THEN copy(s5, result, funcResults(s5, obj), sizeof(<<"results", call.sig>>))
                ELSE s5
    IN  IF s3.fatal # "" THEN s3
        ELSE IF ~isFunctionObject(s3, obj) THEN panic(s3, "funcParams: not a function object block")
        ELSE setTargets(s6, site, targets)

RECURSIVE storeArgs(_, _, _, _, _, _)
\* the argument loop of genDynamicCall
storeArgs(s, caller, fv, args, types, offset) ==
    IF args = <<>> \/ s.fatal # "" THEN s
    ELSE LET sz == sizeof(Head(types))
             s1 == do(s, "valueNode", <<Head(args)>>)
         IN  storeArgs(do(s1, "genStore", <<caller, fv, s1.ret, offset, sz>>),
                       caller, fv, Tail(args), Tail(types), offset + sz)

genDynamicCall(s, caller, site, instr, result) ==
    LET call == V[instr]
        sig  == Sigs[call.sig]
        s1   == do(s, "valueNode", <<call.x>>)
        fn   == s1.ret
        s2   == storeArgs(s1, caller, call.x, call.args, sig.params, 1)
        offset == 1 + sizeof(<<"params", call.sig>>)
        s3   == IF result # 0
                THEN do(s2, "genLoad", <<caller, result, call.x, offset, sizeof(<<"results", call.sig>>)>>)
                ELSE s2
    IN  setTargets(s3, site, fn)

\* The method of *reflect.rtype that a call to a reflect.Type method means.
rtypeMethod(name) ==
    LET ms == MethodSet(reflectRtypePtr)
    IN  ms[CHOOSE i \in 1..Len(ms) : MethodName(ms[i]) = name]

genInvokeReflectType(s, caller, site, instr, result) ==
    LET call == V[instr]
        s1   == addOneNode(s, reflectRtypePtr)
        rtype == s1.ret
        s2   == do(s1, "valueNode", <<call.x>>)
        recv == s2.ret
        s3   == typeAssert(s2, reflectRtypePtr, rtype, recv)
        fn   == rtypeMethod(call.s)
        s4   == do(s3, "makeFunctionObject", <<fn, site>>)
        obj  == s4.ret
        s5   == setTargets(s4, site, obj)
        sig  == Sigs[Fn[fn].sig]
        s6   == addOneNode(s5, Signature(fn))
        targets == s6.ret
        s7   == addressOf(s6, targets, obj)
        params == funcParams(s7, obj)
        s8   == copy(s7, params, rtype, 1)
        s9   == copyArgs(s8, params + 1, call.args, sig.params)
    IN  IF s9.fatal # "" \/ result = 0 THEN s9
        ELSE copy(s9, result, funcResults(s9, obj), sizeof(<<"results", Fn[fn].sig>>))

genInvoke(s, caller, site, instr, result) ==
    LET call == V[instr]
        block == nextNode(s)
        s1   == addOneNode(s, <<"func", call.sig>>)
        s2   == setTargets(s1, site, s1.ret)
        s3   == addNodes(s2, <<"params", call.sig>>)
        p    == s3.ret
        s4   == addNodes(s3, <<"results", call.sig>>)
        r    == s4.ret
        s5   == copyArgs(s4, p, call.args, Sigs[call.sig].params)
        s6   == IF result # 0 THEN copy(s5, result, r, sizeof(<<"results", call.sig>>))
                ELSE s5
        s7   == do(s6, "valueNode", <<call.x>>)
    IN  IF V[call.x].typ = reflectType
        THEN do(s, "genInvokeReflectType", <<caller, site, instr, result>>)
        ELSE addConstraint(s7, [Con("invoke", block, s7.ret) EXCEPT !.name = call.s])

genCall(s, caller, instr) ==
    IF V[instr].mode = "builtin" THEN do(s, "genBuiltinCall", <<instr, caller>>)
    ELSE LET s1 == do(s, "valueNode", <<instr>>)
             result == s1.ret
             site == Len(s1.sites) + 1
             s2 == IF s1.fatal # "" THEN s1
                   ELSE [s1 EXCEPT !.sites = Append(@, [caller |-> caller, instr |-> instr,
                                                         targets |-> 0])]
         IN  CASE V[instr].mode = "static" -> do(s2, "genStaticCall", <<caller, site, instr, result>>)
               [] V[instr].mode = "invoke" -> do(s2, "genInvoke", <<caller, site, instr, result>>)
               [] OTHER -> do(s2, "genDynamicCall", <<caller, site, instr, result>>)


RECURSIVE copyResults(_, _, _)
\* the loop of the Return case of genInstr
copyResults(s, results, rs) ==
    IF rs = <<>> \/ s.fatal # "" THEN s
    ELSE LET sz == sizeof(V[Head(rs)].typ)
             s1 == do(s, "valueNode", <<Head(rs)>>)
         IN  copyResults(copy(s1, results, s1.ret, sz), results + sz, Tail(rs))

RECURSIVE copyEdges(_, _, _, _)
\* the loop of the Phi case of genInstr
copyEdges(s, instr, edges, sz) ==
    IF edges = <<>> \/ s.fatal # "" THEN s
    ELSE LET s1 == do(s, "valueNode", <<instr>>)
             s2 == do(s1, "valueNode", <<Head(edges)>>)
         IN  copyEdges(copy(s2, s1.ret, s2.ret, sz), instr, Tail(edges), sz)

\* a.copy(a.valueNode(dst), a.valueNode(src), sz)
copyValue(s, dst, src, sz) ==
    LET s1 == do(s, "valueNode", <<dst>>)
        s2 == do(s1, "valueNode", <<src>>)
    IN  copy(s2, s1.ret, s2.ret, sz)

genInstr(s, cgn, instr) ==
    LET i == V[instr]
    IN  CASE i.kind = "UnOp" ->
               IF i.mode \in {"MUL", "ARROW"}
               THEN LET s1 == do(s, "valueNode", <<instr>>)
                    IN  do(s1, "genLoad", <<cgn, s1.ret, i.x, 0, sizeof(i.typ)>>)
               ELSE s
          [] i.kind \in {"BinOp", "If", "Jump"} -> s
          [] i.kind = "Call" -> do(s, "genCall", <<cgn, instr>>)
          [] i.kind \in {"ChangeType", "ChangeInterface", "Slice"} ->
               copyValue(s, instr, i.x, 1)
          [] i.kind = "Convert" -> do(s, "genConv", <<instr, cgn>>)
          [] i.kind \in {"Extract", "Field"} ->
               LET s1 == do(s, "valueNode", <<instr>>)
                   s2 == do(s1, "valueOffsetNode", <<i.x, i.n>>)
               IN  copy(s2, s1.ret, s2.ret, sizeof(i.typ))
          [] i.kind = "FieldAddr" ->
               LET s1 == do(s, "valueNode", <<i.x>>)
               IN  do(s1, "genOffsetAddr", <<cgn, instr, s1.ret, offsetOf(mustDeref(V[i.x].typ), i.n)>>)
          [] i.kind = "IndexAddr" ->
               LET s1 == do(s, "valueNode", <<i.x>>)
               IN  do(s1, "genOffsetAddr", <<cgn, instr, s1.ret, 1>>)
          [] i.kind = "Index" ->
               LET s1 == do(s, "valueNode", <<instr>>)
                   s2 == do(s1, "valueNode", <<i.x>>)
               IN  copy(s2, s1.ret, 1 + s2.ret, sizeof(i.typ))
          [] i.kind = "Return" ->
               IF ~isFunctionObject(s, s.cgnodes[cgn].obj)
               THEN panic(s, "funcResults: not a function object block")
               ELSE copyResults(s, funcResults(s, s.cgnodes[cgn].obj), i.args)
          [] i.kind \in {"Send", "Store"} ->
               LET s1 == do(s, "valueNode", <<i.y>>)
               IN  do(s1, "genStore", <<cgn, i.x, s1.ret, 0, sizeof(V[i.y].typ)>>)
          [] i.kind \in {"Alloc", "MakeSlice", "MakeChan", "MakeMap", "MakeInterface"} ->
               LET s1 == do(s, "valueNode", <<instr>>)
                   s2 == do(s1, "objectNode", <<cgn, instr>>)
               IN  addressOf(s2, s1.ret, s2.ret)
          [] i.kind = "TypeAssert" ->
               LET s1 == do(s, "valueNode", <<instr>>)
                   s2 == do(s1, "valueNode", <<i.x>>)
               IN  typeAssert(s2, i.typ, s1.ret, s2.ret)
          [] i.kind = "Phi" -> copyEdges(s, instr, i.args, sizeof(i.typ))
          [] i.kind = "Lookup" ->
               IF Kind(V[i.x].typ) = "map"
               THEN LET s1 == do(s, "valueNode", <<instr>>)
                    IN  do(s1, "genLoad", <<cgn, s1.ret, i.x, sizeof(Key(V[i.x].typ)), sizeof(Elem(V[i.x].typ))>>)
               ELSE s
          [] i.kind = "MapUpdate" ->
               LET ksize == sizeof(Key(V[i.x].typ))
                   vsize == sizeof(Elem(V[i.x].typ))
                   s1 == do(s, "valueNode", <<i.y>>)
                   s2 == do(s1, "genStore", <<cgn, i.x, s1.ret, 0, ksize>>)
                   s3 == do(s2, "valueNode", <<i.args[1]>>)
               IN  do(s3, "genStore", <<cgn, i.x, s3.ret, ksize, vsize>>)
          [] i.kind = "Panic" ->
               LET s1 == do(s, "valueNode", <<i.x>>)
               IN  copy(s1, s.panicNode, s1.ret, 1)
          [] OTHER -> panic(s, "unimplemented")

(***************************************************************************)
(* The intrinsics' generators (reflect.go): each adds its constraint on    *)
(* the parameter and result nodes of the contour.                          *)
(***************************************************************************)
\* A reflection constraint of contour cgn: ptr() is src, result is dst.
reflectCon(s, k, cgn, ptr) ==
    [Con(k, funcResults(s, s.cgnodes[cgn].obj), ptr) EXCEPT !.cgn = cgn]

\* site.instr.Common().Args[0], if the contour has a call site and the
\* argument is a constant ("" otherwise).
constArg0(s, cgn) ==
    LET site == s.cgnodes[cgn].callersite
    IN  IF site = 0 THEN ""
        ELSE LET arg == V[s.sites[site].instr].args[1]
             IN  IF V[arg].kind = "Const" THEN arg ELSE ""

\* dirMap: reflect.ChanDir to the channel types ChanOf generates.
dirMap(dir) ==
    CASE dir = 1 -> <<"chanR">>
      [] dir = 2 -> <<"chanS">>
      [] dir = 3 -> <<"chan">>
      [] OTHER   -> <<"chanR", "chanS", "chan">>

ext_reflect_TypeOf(s, cgn) ==
    addConstraint(s, reflectCon(s, "reflectTypeOf", cgn, funcParams(s, s.cgnodes[cgn].obj)))

\* A ChanOf that never looks at the call site.
chanOfAnyDir(s, cgn) ==
    addConstraint(s, [reflectCon(s, "reflectChanOf", cgn, funcParams(s, s.cgnodes[cgn].obj) + 1)
                         EXCEPT !.dirs = dirMap(0)])

ext_reflect_ChanOf(s, cgn) ==
    LET c   == constArg0(s, cgn)
        dir == IF c # "" /\ 0 <= V[c].n /\ V[c].n <= 3 THEN V[c].n ELSE 0
        params == funcParams(s, s.cgnodes[cgn].obj)
    IN  addConstraint(s, [reflectCon(s, "reflectChanOf", cgn, params + 1)
                             EXCEPT !.dirs = dirMap(dir)])

ext_reflect_rtype_Elem(s, cgn) ==
    addConstraint(s, reflectCon(s, "rtypeElem", cgn, funcParams(s, s.cgnodes[cgn].obj)))

ext_reflect_rtype_MethodByName(s, cgn) ==
    LET c == constArg0(s, cgn)
    IN  addConstraint(s, [reflectCon(s, "rtypeMethodByName", cgn,
                                     funcParams(s, s.cgnodes[cgn].obj))
                             EXCEPT !.name = IF c # "" THEN V[c].s ELSE ""])

ext_reflect_ValueOf(s, cgn) ==
    copy(s, funcResults(s, s.cgnodes[cgn].obj), funcParams(s, s.cgnodes[cgn].obj), 1)

ext_reflect_Zero(s, cgn) ==
    addConstraint(s, reflectCon(s, "reflectZero", cgn, funcParams(s, s.cgnodes[cgn].obj)))

ext_reflect_New(s, cgn) ==
    addConstraint(s, reflectCon(s, "reflectNew", cgn, funcParams(s, s.cgnodes[cgn].obj)))

ext_reflect_MakeChan(s, cgn) ==
    addConstraint(s, reflectCon(s, "reflectMakeChan", cgn, funcParams(s, s.cgnodes[cgn].obj)))

\* func ext.reflect.MakeFunc(a *analysis, cgn *cgnode) {}
ext_reflect_MakeFunc(s, cgn) == s

\* func ext.reflect.Select(a *analysis, cgn *cgnode) {}
ext_reflect_Select(s, cgn) == s

\* NewAt is treated as New; the warning is reported only for a contour
\* that has a caller site.
ext_reflect_NewAt(s, cgn) ==
    LET s1   == ext_reflect_New(s, cgn)
        site == s.cgnodes[cgn].callersite
    IN  IF site # 0
        THEN warnf(s1, <<"unsound: contains a reflect.NewAt() call",
                         s.cgnodes[s.sites[site].caller].fn>>)
        ELSE s1

ext_reflect_Value_MapIndex(s, cgn) ==
    addConstraint(s, reflectCon(s, "rVMapIndex", cgn, funcParams(s, s.cgnodes[cgn].obj)))

ext_reflect_Value_Interface(s, cgn) ==
    addConstraint(s, [reflectCon(s, "rVInterface", cgn, funcParams(s, s.cgnodes[cgn].obj))
                         EXCEPT !.cgn = 0])

\* impl(a, cgn)
callIntrinsic(s, impl, cgn) ==
    CASE impl = "ext.reflect.TypeOf" -> ext_reflect_TypeOf(s, cgn)
      [] impl = "ext.reflect.ValueOf" -> ext_reflect_ValueOf(s, cgn)
      [] impl = "ext.reflect.Zero" -> ext_reflect_Zero(s, cgn)
      [] impl = "ext.reflect.New" -> ext_reflect_New(s, cgn)
      [] impl = "ext.reflect.MakeChan" -> ext_reflect_MakeChan(s, cgn)
      [] impl = "ext.reflect.MakeFunc" -> ext_reflect_MakeFunc(s, cgn)
      [] impl = "ext.reflect.Select" -> ext_reflect_Select(s, cgn)
      [] impl = "ext.reflect.NewAt" -> ext_reflect_NewAt(s, cgn)
      [] impl = "ext.reflect.Value.MapIndex" -> ext_reflect_Value_MapIndex(s, cgn)
      [] impl = "ext.reflect.Value.Interface" -> ext_reflect_Value_Interface(s, cgn)
      [] impl = "ext.reflect.ChanOf" -> ext_reflect_ChanOf(s, cgn)
      [] impl = "ext.reflect.rtype.Elem" -> ext_reflect_rtype_Elem(s, cgn)
      [] impl = "ext.reflect.rtype.MethodByName" -> ext_reflect_rtype_MethodByName(s, cgn)
      [] OTHER -> s

(***************************************************************************)
(* genFunc, genRootCalls, generate (gen.go).                               *)
(***************************************************************************)
\* The instructions that are ssa.Values (genFunc creates their nodes).
isValueInstr(instr) ==
    V[instr].kind \notin {"Store", "Return", "Jump", "If", "MapUpdate", "Send", "Panic"}

RECURSIVE Flat(_)
\* All instructions of a sequence of blocks, in order.
Flat(blocks) == IF blocks = <<>> THEN <<>> ELSE Head(blocks) \o Flat(Tail(blocks))

RECURSIVE setParams(_, _, _, _)
setParams(s, cgn, params, ps) ==
    IF ps = <<>> \/ s.fatal # "" THEN s
    ELSE setParams(do(s, "setValueNode", <<Head(ps), params, cgn>>), cgn,
                   params + sizeof(V[Head(ps)].typ), Tail(ps))

RECURSIVE createValueNodes(_, _, _)
createValueNodes(s, cgn, instrs) ==
    IF instrs = <<>> \/ s.fatal # "" THEN s
    ELSE IF ~isValueInstr(Head(instrs)) THEN createValueNodes(s, cgn, Tail(instrs))
    ELSE LET s1 == addNodes(s, V[Head(instrs)].typ)
         IN  createValueNodes(do(s1, "setValueNode", <<Head(instrs), s1.ret, cgn>>), cgn, Tail(instrs))

RECURSIVE genInstrs(_, _, _)
genInstrs(s, cgn, instrs) ==
    IF instrs = <<>> \/ s.fatal # "" THEN s
    ELSE genInstrs(do(s, "genInstr", <<cgn, Head(instrs)>>), cgn, Tail(instrs))

genFunc(s, cgn) ==
    LET fn   == s.cgnodes[cgn].fn
        impl == findIntrinsic(fn)
        s0   == [s EXCEPT !.localval = EmptyMap, !.localobj = EmptyMap]
        s1   == setParams(s0, cgn, funcParams(s0, s.cgnodes[cgn].obj), Fn[fn].params)
        s2   == createValueNodes(s1, cgn, Flat(Fn[fn].blocks))
        s3   == genInstrs(s2, cgn, Flat(Fn[fn].blocks))
    IN  IF impl # "" THEN do(s, "callIntrinsic", <<impl, cgn>>)
        ELSE IF Fn[fn].blocks = <<>> THEN s
        ELSE IF ~isFunctionObject(s, s.cgnodes[cgn].obj)
             THEN panic(s, "funcParams: not a function object block")
        ELSE IF s3.fatal # "" THEN s3
        ELSE [s3 EXCEPT !.localval = EmptyMap, !.localobj = EmptyMap]

RECURSIVE rootCalls(_, _, _)
\* the loop of genRootCalls over config.Mains
rootCalls(s, root, mains) ==
    IF mains = <<>> \/ s.fatal # "" THEN s
    ELSE LET main == Packages[Head(mains)].main
             s1 == addOneNode(s, <<"func", "main">>)
             targets == s1.ret
             s2 == [s1 EXCEPT !.sites = Append(@, [caller |-> root, instr |-> "",
                                                   targets |-> targets])]
             s3 == do(s2, "valueNode", <<"init">>)
             s4 == copy(s3, targets, s3.ret, 1)
             s5 == do(s4, "valueNode", <<main>>)
             s6 == copy(s5, targets, s5.ret, 1)
         IN  IF main = "" THEN panic(s, "no main function")
             ELSE rootCalls(s6, root, Tail(mains))

genRootCalls(s) ==
    LET s1 == makeCGNode(s, "<root>", 0, 0)
        root == s1.ret
        s2 == rootCalls(s1, root, s.config.Mains)
    IN  IF s2.fatal # "" THEN s2 ELSE [s2 EXCEPT !.root = root, !.ret = root]

\* Does the program import package p ("reflect", "os")?
usesReflect(s) == \E i \in 1..Len(s.config.Mains) : Packages[s.config.Mains[i]].reflect
usesOs(s) == \E i \in 1..Len(s.config.Mains) : Packages[s.config.Mains[i]].os

\* generate, up to its loop over genq.
generateBegin(s) ==
    LET s1 == addNodes(s, tInvalid)
        s2 == addNodes(s1, tEface)
        s3 == [s2 EXCEPT !.panicNode = s2.ret]
        s4 == IF usesReflect(s) THEN valueNodeAll(s3, MethodSet(reflectRtypePtr)) ELSE s3
    IN  do(s4, "genRootCalls", <<>>)

\* generate, after its loop over genq: the os.Args object.
generateEnd(s) ==
    IF ~usesOs(s) THEN s
    ELSE LET s1  == addNodes(s, <<"array", "string">>)
             obj == s1.ret
             s2  == endObject(s1, obj, 0, DataStr("<command-line args>"))
             s3  == do(s2, "objectNode", <<0, "os.Args">>)
         IN  addressOf(s3, s3.ret, obj)


(***************************************************************************)
(* The solver.  addLabel and addWork are the two primitives the solve      *)
(* methods of reflect.go call; the worklist loop and the propagation rules *)
(* of the basic constraints follow the constraint algebra and the solver   *)
(* description of the design document.                                     *)
(***************************************************************************)
\* An addLabel that replaces pts(ptr) by the label.
setLabel(s, ptr, label) ==
    IF s.fatal # "" THEN s
    ELSE IF ptr + 1 > Len(s.pts) THEN panic(s, "index out of range")
    ELSE [s EXCEPT !.pts[ptr + 1] = {label},
                   !.ret = IF s.pts[ptr + 1] = {label} THEN 0 ELSE 1]

\* addLabel(ptr, label): ret is 1 if pts(ptr) changed, else 0.
addLabel(s, ptr, label) ==
    IF s.fatal # "" THEN s
    ELSE IF ptr + 1 > Len(s.pts) THEN panic(s, "index out of range")
    ELSE [s EXCEPT !.pts[ptr + 1] = @ \cup {label},
                   !.ret = IF label \in s.pts[ptr + 1] THEN 0 ELSE 1]

addWork(s, id) == IF s.fatal # "" THEN s ELSE [s EXCEPT !.work = @ \cup {id}]

\* if addLabel(ptr, label) { addWork(ptr) }
addLabelWork(s, ptr, label) ==
    LET s1 == addLabel(s, ptr, label)
    IN  IF s1.fatal = "" /\ s1.ret = 1 THEN addWork(s1, ptr) ELSE s1

\* if addLabel(ptr, label) { changed = true }
addLabelChanged(s, ptr, label) ==
    LET s1 == addLabel(s, ptr, label)
    IN  IF s1.fatal = "" /\ s1.ret = 1 THEN [s1 EXCEPT !.changed = TRUE] ELSE s1

\* A copy edge added while solving: pts(dst) receives pts(src) at once;
\* ret is 1 if pts(dst) changed.
onlineCopy(s, dst, src) ==
    IF s.fatal # "" THEN s
    ELSE IF dst + 1 > Len(s.pts) \/ src + 1 > Len(s.pts) THEN panic(s, "index out of range")
    ELSE IF dst = src \/ <<src, dst>> \in s.copyTo THEN [s EXCEPT !.ret = 0]
    ELSE [s EXCEPT !.copyTo = @ \cup {<<src, dst>>},
                   !.pts[dst + 1] = @ \cup s.pts[src + 1],
                   !.ret = IF s.pts[src + 1] \subseteq s.pts[dst + 1] THEN 0 ELSE 1]

RECURSIVE onlineCopyN(_, _, _, _)
onlineCopyN(s, dst, src, sz) ==
    IF sz = 0 \/ s.fatal # "" THEN s
    ELSE LET s1 == onlineCopy(s, dst, src)
             s2 == IF s1.fatal = "" /\ s1.ret = 1 THEN addWork(s1, dst) ELSE s1
         IN  onlineCopyN(s2, dst + 1, src + 1, sz - 1)

\* types.IsAssignableTo(T, I) for an interface type I of the universe.
IsAssignableTo(T, I) ==
    CASE I = tEface      -> TRUE
      [] I = <<"I">>     -> T \in {<<"D">>, <<"ptr", "D">>}
      [] I = reflectType -> T = reflectRtypePtr
      [] OTHER           -> FALSE

\* tDyn.MethodSet().Lookup(name), as a function ("" if there is none).
LookupMethod(T, name) ==
    LET ms == MethodSet(T)
        is == {i \in 1..Len(ms) : MethodName(ms[i]) = name}
    IN  IF is = {} THEN "" ELSE ms[Min(is)]

\* changeRecv(sig): sig with its receiver prepended to the parameters.
changeRecv(sig) == <<"funcCR", sig[2]>>

\* The tagged-object checks that open the solve loops on interface labels.
taggedCheck(s, obj, mayBeIndirect) ==
    LET tv == taggedValue(s, obj)
    IN  IF tv.nilobj THEN "nil pointer dereference"
        ELSE IF tv.tDyn = <<>> THEN "not a tagged value"
        ELSE IF tv.indirect /\ ~mayBeIndirect THEN "indirect tagged object"
        ELSE ""

\* a.nodes[tObj].obj.data.(types.Type)
rtypeData(s, tObj) == Tail(N(s, tObj).data)
rtypeDataOk(s, tObj) ==
    N(s, tObj).hdr /\ N(s, tObj).data # <<>> /\ N(s, tObj).data[1] = "type"


\* rtypeMethodByNameConstraint.addMethod, for the function fn of the selection.
addMethod(s, c, fn) ==
    LET s1 == do(s, "makeRtype", <<changeRecv(Signature(fn))>>)
        s2 == addLabelWork(s1, c.dst + 3, s1.ret)
        s3 == do(s2, "objectNode", <<0, fn>>)
    IN  addLabelWork(s3, c.dst + 4, s3.ret)

RECURSIVE addMethods(_, _, _)
\* the loop of rtypeMethodByNameConstraint.solve over the method set
addMethods(s, c, fns) ==
    IF fns = <<>> \/ s.fatal # "" THEN s
    ELSE IF c.name = "" \/ c.name = MethodName(Head(fns))
         THEN addMethods(addMethod(s, c, Head(fns)), c, Tail(fns))
         ELSE addMethods(s, c, Tail(fns))

RECURSIVE addChanTypes(_, _, _, _)
\* the loop of reflectChanOfConstraint.solve over c.dirs
addChanTypes(s, c, T, dirs) ==
    IF dirs = <<>> \/ s.fatal # "" THEN s
    ELSE LET s1 == do(s, "makeRtype", <<<<Head(dirs)>> \o T>>)
         IN  addChanTypes(addLabelChanged(s1, c.dst, s1.ret), c, T, Tail(dirs))

\* The body of the loop "for k := range delta" of c's solve method.
solveLabel(s, c, k) ==
    CASE c.k = "load" ->
           LET s1 == onlineCopy(s, c.dst, k + c.offset)
           IN  IF s1.fatal = "" /\ s1.ret = 1 THEN [s1 EXCEPT !.changed = TRUE] ELSE s1
      [] c.k = "store" ->
           LET s1 == onlineCopy(s, k + c.offset, c.src)
           IN  IF s1.fatal = "" /\ s1.ret = 1 THEN addWork(s1, k + c.offset) ELSE s1
      [] c.k = "offsetAddr" -> addLabelWork(s, c.dst, k + c.offset)
      [] c.k = "typeAssert" ->
           LET tv == taggedValue(s, k)
           IN  IF taggedCheck(s, k, FALSE) # "" THEN panic(s, taggedCheck(s, k, FALSE))
               ELSE IF Kind(c.typ) = "iface"
               THEN IF IsAssignableTo(tv.tDyn, c.typ) THEN addLabelWork(s, c.dst, k) ELSE s
               ELSE IF tv.tDyn = c.typ THEN onlineCopyN(s, c.dst, tv.v, sizeof(tv.tDyn))
               ELSE s
      [] c.k = "invoke" ->
           LET tv     == taggedValue(s, k)
               fn     == LookupMethod(tv.tDyn, c.name)
               fnObj  == IF Has(s.globalobj, fn) THEN s.globalobj[fn] ELSE 0
               sig    == Signature(fn)
               s1     == addLabel(s, c.dst, fnObj)
               arg0   == funcParams(s1, fnObj)
               recvSize == sizeof(SigRecv(sig))
               s2     == onlineCopyN(s1, arg0, tv.v, recvSize)
               src    == c.dst + 1
               dst    == arg0 + recvSize
               paramsSize == sizeof(<<"params", sig[2]>>)
               s3     == onlineCopyN(s2, dst, src, paramsSize)
           IN  IF taggedCheck(s, k, FALSE) # "" THEN panic(s, taggedCheck(s, k, FALSE))
               ELSE IF fn = "" THEN panic(s, "no concrete method")
               ELSE IF fnObj = 0 THEN panic(s, "a.globalobj[fn]==nil")
               ELSE onlineCopyN(s3, src + paramsSize, dst + paramsSize,
                                sizeof(<<"results", sig[2]>>))
      [] c.k = "reflectTypeOf" ->
           LET s1 == do(s, "makeRtype", <<taggedValue(s, k).tDyn>>)
           IN  IF taggedCheck(s, k, TRUE) # "" THEN panic(s, taggedCheck(s, k, TRUE))
               ELSE addLabelChanged(s1, c.dst, s1.ret)
      [] c.k = "reflectChanOf" ->
           IF ~rtypeTaggedOk(s, k) THEN panic(s, "not a *reflect.rtype-tagged value")
           ELSE addChanTypes(s, c, rtypeTaggedValue(s, k), c.dirs)
      [] c.k = "rVInterface" ->
           IF taggedCheck(s, k, FALSE) # "" THEN panic(s, taggedCheck(s, k, FALSE))
           ELSE addLabelChanged(s, c.dst, k)
      [] c.k = "rVMapIndex" ->
           LET tv  == taggedValue(s, k)
               s1  == do(s, "makeTagged", <<Elem(tv.tDyn), c.cgn, <<>>>>)
               obj == s1.ret
               s2  == load(s1, obj + 1, tv.v, sizeof(Key(tv.tDyn)), sizeof(Elem(tv.tDyn)))
           IN  IF tv.nilobj \/ tv.tDyn = <<>> THEN panic(s, "nil pointer dereference")
               ELSE IF Kind(tv.tDyn) # "map" THEN s
               ELSE IF tv.indirect THEN panic(s, "indirect tagged object")
               ELSE addLabelChanged(s2, c.dst, obj)
      [] c.k = "reflectMakeChan" ->
           LET T   == rtypeTaggedValue(s, k)
               obj == nextNode(s)
               s1  == endObject(addNodes(s, Elem(T)), obj, c.cgn, <<>>)
               s2  == do(s1, "makeTagged", <<T, c.cgn, <<>>>>)
               id  == s2.ret
               s3  == addLabel(s2, id + 1, obj)
           IN  IF ~rtypeTaggedOk(s, k) THEN panic(s, "not a *reflect.rtype-tagged value")
               ELSE IF Kind(T) # "chan" THEN s
               ELSE addLabelChanged(s3, c.dst, id)
      [] c.k = "reflectNew" ->
           LET T      == rtypeTaggedValue(s, k)
               newObj == nextNode(s)
               s1     == endObject(addNodes(s, T), newObj, c.cgn, <<>>)
               s2     == do(s1, "makeTagged", <<<<"ptr">> \o T, c.cgn, <<>>>>)
               id     == s2.ret
               s3     == addLabel(s2, id + 1, newObj)
           IN  IF ~rtypeTaggedOk(s, k) THEN panic(s, "not a *reflect.rtype-tagged value")
               ELSE addLabelChanged(s3, c.dst, id)
      [] c.k = "reflectZero" ->
           \* the memo is switched off in the source: "false && z != nil"
           LET T  == rtypeTaggedValue(s, k)
               s1 == IF FALSE /\ Has(s.reflectZeros, T)
                     THEN [s EXCEPT !.ret = s.reflectZeros[T]]
                     ELSE do(s, "makeTagged", <<T, c.cgn, <<>>>>)
               id == s1.ret
               s2 == IF s1.fatal # "" \/ (FALSE /\ Has(s.reflectZeros, T)) THEN s1
                     ELSE [s1 EXCEPT !.reflectZeros = Put(@, T, id)]
           IN  IF ~rtypeTaggedOk(s, k) THEN panic(s, "not a *reflect.rtype-tagged value")
               ELSE addLabelChanged(s2, c.dst, id)
      [] c.k = "rtypeElem" ->
           IF ~rtypeDataOk(s, k) THEN panic(s, "interface conversion")
           ELSE IF Kind(rtypeData(s, k)) \in (Unary \cup {"map"})
           THEN LET s1 == do(s, "makeRtype", <<Elem(rtypeData(s, k))>>)
                IN  addLabelChanged(s1, c.dst, s1.ret)
           ELSE s
      [] c.k = "rtypeMethodByName" ->
           IF ~rtypeDataOk(s, k) THEN panic(s, "interface conversion")
           ELSE addMethods(s, c, MethodSet(rtypeData(s, k)))
      [] OTHER -> panic(s, "unknown constraint")

\* A solve method that returns after the first label of the delta.
solveFirstLabel(s, c, delta) ==
    IF delta = <<>> \/ s.fatal # "" THEN s ELSE do(s, "solveLabel", <<c, Head(delta)>>)

RECURSIVE solveLabels(_, _, _)
\* for l := range delta { ... }: the body of a solve method, label by label
solveLabels(s, c, delta) ==
    IF delta = <<>> \/ s.fatal # "" THEN s
    ELSE solveLabels(do(s, "solveLabel", <<c, Head(delta)>>), c, Tail(delta))

\* A solve method that forgets its final addWork.
solveNoWork(s, c, delta) == solveLabels([s EXCEPT !.changed = FALSE], c, delta)

\* c.solve(a, n, delta): the loop over delta, then "if changed { addWork }"
\* for the constraints that batch their addWork.
solve(s, c, delta) ==
    LET s1 == solveLabels([s EXCEPT !.changed = FALSE], c, delta)
    IN  IF s1.fatal = "" /\ s1.changed THEN addWork([s1 EXCEPT !.changed = FALSE], c.dst)
        ELSE s1

\* c.ptr(): the node whose points-to set triggers the constraint.
ptr(c) == IF c.k = "store" THEN c.dst ELSE c.src

\* The constraints added since the last call are taken from a.constraints:
\* an addr constraint is applied, a copy becomes an edge, every other one
\* is attached to its ptr() node; a constraint attached to a node that
\* already has labels is marked so that its first solve sees them all.
RECURSIVE processNewConstraints(_)
processNewConstraints(s) ==
    IF s.constraints = <<>> \/ s.fatal # "" THEN s
    ELSE LET c  == Head(s.constraints)
             s0 == [s EXCEPT !.constraints = Tail(@)]
         IN  processNewConstraints(
               CASE c.k = "addr" -> addWork(addLabel(s0, c.dst, c.src), c.dst)
                 [] c.k = "copy" ->
                      LET s1 == onlineCopy(s0, c.dst, c.src)
                      IN  IF s1.fatal = "" /\ s1.ret = 1 THEN addWork(s1, c.dst) ELSE s1
                 [] OTHER ->
                      LET s1 == [s0 EXCEPT !.complex = Append(@, c)]
                      IN  IF s.pts[ptr(c) + 1] = {} THEN s1
                          ELSE addWork([s1 EXCEPT !.fresh = @ \cup {Len(s1.complex)}],
                                       ptr(c)))

RECURSIVE solveConstraints(_, _, _, _, _)
\* Every complex constraint attached to the node (is: their indices in
\* a.complex) solves the delta d, or the whole set if it is freshly attached.
solveConstraints(s, is, d, full, rev) ==
    IF is = <<>> \/ s.fatal # "" THEN s
    ELSE LET i     == Head(is)
             delta == Ascending(IF i \in s.fresh THEN full ELSE d)
             s1    == solve([s EXCEPT !.fresh = @ \ {i}], s.complex[i],
                            IF rev THEN Reverse(delta) ELSE delta)
         IN  solveConstraints(s1, Tail(is), d, full, rev)

RECURSIVE flowCopies(_, _, _)
\* The delta flows along the copy edges that leave the node.
flowCopies(s, dsts, d) ==
    IF dsts = <<>> \/ s.fatal # "" THEN s
    ELSE LET dst == Head(dsts)
             s1  == [s EXCEPT !.pts[dst + 1] = @ \cup d]
         IN  flowCopies(IF d \subseteq s.pts[dst + 1] THEN s ELSE addWork(s1, dst),
                        Tail(dsts), d)

\* One iteration of the solver's main loop, for the node n taken from the
\* worklist; rev is the order in which a solve method ranges over a delta.
solveNode(s, n, rev) ==
    LET d    == s.pts[n + 1] \ s.prevPts[n + 1]
        full == s.pts[n + 1]
        s0   == [s EXCEPT !.work = @ \ {n}, !.prevPts[n + 1] = full]
        is   == Ascending({i \in 1..Len(s.complex) : ptr(s.complex[i]) = n})
        s1   == solveConstraints(s0, is, d, full, rev)
        s2   == flowCopies(s1, Ascending({e[2] : e \in {x \in s1.copyTo : x[1] = n}}), d)
    IN  processNewConstraints(s2)


(***************************************************************************)
(* A method call on the analysis.  Every call between the methods of the   *)
(* analysis goes through this one recursive operator: do(s, f, x) is       *)
(* s.f(x[1], ..., x[n]).                                                   *)
(***************************************************************************)
do(s, f, x) ==
    CASE f = "makeFunctionObject" -> makeFunctionObject(s, x[1], x[2])
      [] f = "makeTagged" -> makeTagged(s, x[1], x[2], x[3])
      [] f = "makeRtype" -> makeRtype(s, x[1])
      [] f = "setValueNode" -> setValueNode(s, x[1], x[2], x[3])
      [] f = "valueNode" -> valueNode(s, x[1])
      [] f = "objectNode" -> objectNode(s, x[1], x[2])
      [] f = "genLoad" ->
           IF s.config.preApply THEN genLoad(s, x[1], x[2], x[3], x[4], x[5])
           ELSE genLoadPlain(s, x[1], x[2], x[3], x[4], x[5])
      [] f = "genOffsetAddr" ->
           IF s.config.preApply THEN genOffsetAddr(s, x[1], x[2], x[3], x[4])
           ELSE genOffsetAddrPlain(s, x[1], x[2], x[3], x[4])
      [] f = "genStore" ->
           IF s.config.preApply THEN genStore(s, x[1], x[2], x[3], x[4], x[5])
           ELSE genStorePlain(s, x[1], x[2], x[3], x[4], x[5])
      [] f = "valueOffsetNode" -> valueOffsetNode(s, x[1], x[2])
      [] f = "copyElems" -> copyElems(s, x[1], x[2], x[3], x[4])
      [] f = "genConv" -> genConv(s, x[1], x[2])
      [] f = "genAppend" -> genAppend(s, x[1], x[2])
      [] f = "genBuiltinCall" -> genBuiltinCall(s, x[1], x[2])
      [] f = "genStaticCall" -> genStaticCall(s, x[1], x[2], x[3], x[4])
      [] f = "genDynamicCall" -> genDynamicCall(s, x[1], x[2], x[3], x[4])
      [] f = "genInvokeReflectType" -> genInvokeReflectType(s, x[1], x[2], x[3], x[4])
      [] f = "genInvoke" -> genInvoke(s, x[1], x[2], x[3], x[4])
      [] f = "genCall" -> genCall(s, x[1], x[2])
      [] f = "genInstr" -> genInstr(s, x[1], x[2])
      [] f = "callIntrinsic" -> callIntrinsic(s, x[1], x[2])
      [] f = "genFunc" -> genFunc(s, x[1])
      [] f = "genRootCalls" -> genRootCalls(s)
      [] f = "solveLabel" -> solveLabel(s, x[1], x[2])
      [] f = "generateBegin" -> generateBegin(s)
      [] f = "generateEnd" -> generateEnd(s)
      [] f = "solveNode" -> solveNode(s, x[1], x[2])

(***************************************************************************)
(* The state machine: one run of Analyze on the program prog.              *)
(***************************************************************************)
\* config.preApply is a switch of the model only: it is TRUE in every run
\* of the program, and FALSE in the reference run without pre-applied
\* constraints that AnalyzePlain builds.
\* The analysis struct after construction; config.print says whether the
\* configuration has a print hook (Config.Print # nil).
NewAnalysis(mains, print) ==
    [pc |-> "start", config |-> [Mains |-> mains, print |-> print, preApply |-> TRUE],
     objlog |-> {},
     nodes |-> <<>>, pts |-> <<>>, prevPts |-> <<>>,
     constraints |-> <<>>, complex |-> <<>>, fresh |-> {}, copyTo |-> {}, work |-> {},
     genq |-> <<>>, cgnodes |-> <<>>, sites |-> <<>>, root |-> 0,
     localval |-> EmptyMap, localobj |-> EmptyMap,
     globalval |-> EmptyMap, globalobj |-> EmptyMap,
     rtypes |-> EmptyMap, reflectZeros |-> EmptyMap, probes |-> EmptyMap, printLog |-> <<>>,
     warnings |-> <<>>, queries |-> {}, panicNode |-> 0,
     fatal |-> "", ret |-> 0, changed |-> FALSE]

\* The struct an operation leaves: a panic ends the run.
After(s, pc) ==
    [s EXCEPT !.pc = IF s.fatal # "" THEN "fatal" ELSE pc, !.ret = 0, !.changed = FALSE]

\* No node has a type longer than the bound.
TypeBound(s) == \A i \in 1..Len(s.nodes) : Len(s.nodes[i].typ) <= MaxTypeLen

Init ==
    /\ \E mains \in Configs, print \in BOOLEAN :
          /\ prog = Program(Head(mains))
          /\ a = NewAnalysis(mains, print)
    /\ genned = <<>>
    /\ check = Idle
    /\ lift = Idle

\* generate, up to the loop over genq
Generate ==
    /\ a.pc = "start"
    /\ a' = After(do(a, "generateBegin", <<>>), "gen")
    /\ UNCHANGED <<prog, genned, check, lift>>

\* one iteration of generate's loop over genq
GenFunc ==
    /\ a.pc = "gen"
    /\ a.genq # <<>>
    /\ a' = After(do([a EXCEPT !.genq = Tail(@)], "genFunc", <<Head(a.genq)>>), "gen")
    /\ genned' = Append(genned, Head(a.genq))
    /\ UNCHANGED <<prog, check, lift>>

\* generate, after the loop over genq
GenerateEnd ==
    /\ a.pc = "gen"
    /\ a.genq = <<>>
    /\ a' = After(do(a, "generateEnd", <<>>), "init")
    /\ UNCHANGED <<prog, genned, check, lift>>

\* solve: the constraints of the generator are applied and attached
SolveInit ==
    /\ a.pc = "init"
    /\ a' = After(processNewConstraints(a), "solve")
    /\ UNCHANGED <<prog, genned, check, lift>>

\* The nodes the main loop may take from a worklist: its lowest or its
\* highest pending node.
Pick(work) == IF work = {} THEN {} ELSE {Min(work), Max(work)}

\* solve: one iteration of the main loop, for a node of the worklist
SolveStep ==
    /\ a.pc = "solve"
    /\ \E n \in Pick(a.work), rev \in BOOLEAN :
          \E t \in {do(a, "solveNode", <<n, rev>>)} :
              /\ TypeBound(t)
              /\ a' = After(t, "solve")
    /\ UNCHANGED <<prog, genned, check, lift>>

\* solve: the worklist is empty
SolveDone ==
    /\ a.pc = "solve"
    /\ a.work = {}
    /\ a' = After(a, "done")
    /\ UNCHANGED <<prog, genned, check, lift>>

Next == Generate \/ GenFunc \/ GenerateEnd \/ SolveInit \/ SolveStep \/ SolveDone

Spec == Init /\ [][Next]_vars

FairSpec == Spec /\ WF_vars(Next)


(***************************************************************************)
(* The result of a run, in terms that do not depend on node ids.           *)
(***************************************************************************)
\* A contour, as its function and the call instruction it was created for.
CgnOf(s, cgn) ==
    IF cgn = 0 THEN <<>>
    ELSE LET site == s.cgnodes[cgn].callersite
         IN  <<s.cgnodes[cgn].fn, IF site = 0 THEN "" ELSE s.sites[site].instr>>

\* The heads of the objects whose block contains node id.
HeadsOf(s, id) ==
    {h \in 0..id : N(s, h).hdr /\ id < h + (IF N(s, h).size = 0 THEN 1 ELSE N(s, h).size)}

\* The label a node id stands for: its object's allocation site and
\* contour, and the offset of the node in the object.
LabelOf(s, id) ==
    IF HeadsOf(s, id) = {} THEN <<<<"node">>, <<>>, <<>>>>
    ELSE LET h == Max(HeadsOf(s, id))
         IN  <<N(s, h).data, CgnOf(s, N(s, h).cgn), N(s, h).typ \o <<"+">> \o
               [i \in 1..(id - h) |-> "1"]>>

Labels(s, id) == {LabelOf(s, l) : l \in s.pts[id + 1]}

\* The contours whose function object is in pts(targets) of a site.
Callees(s, site) ==
    {c \in 1..Len(s.cgnodes) :
        s.cgnodes[c].obj # 0 /\ s.cgnodes[c].obj \in s.pts[s.sites[site].targets + 1]}

\* The call graph: (caller cgn, site, callee cgn).
Edges(s) ==
    {e \in (1..Len(s.cgnodes)) \X (1..Len(s.sites)) \X (1..Len(s.cgnodes)) :
        s.sites[e[2]].caller = e[1] /\ e[3] \in Callees(s, e[2])}

\* What a client sees of a finished run.
Result(s) ==
    [queries |-> {<<q[1], CgnOf(s, q[2]), Labels(s, q[3])>> : q \in s.queries},
     edges   |-> {<<CgnOf(s, e[1]), s.sites[e[2]].instr, CgnOf(s, e[3])>> : e \in Edges(s)}]


RECURSIVE genAll(_)
\* generate's loop over genq, run to its end
genAll(s) ==
    IF s.genq = <<>> \/ s.fatal # "" THEN s
    ELSE genAll(do([s EXCEPT !.genq = Tail(@)], "genFunc", <<Head(s.genq)>>))

RECURSIVE solveAll(_)
\* the solver's main loop, always taking the lowest pending node
solveAll(s) ==
    IF s.work = {} \/ s.fatal # "" THEN s
    ELSE solveAll(do(s, "solveNode", <<Min(s.work), FALSE>>))

\* Analyze(config): a whole run of the analysis.
Analyze(mains, print) ==
    LET s1 == do(NewAnalysis(mains, print), "generateBegin", <<>>)
        s2 == do(genAll(s1), "generateEnd", <<>>)
    IN  solveAll(processNewConstraints(s2))

\* A whole run in which genLoad, genStore and genOffsetAddr never pre-apply.
AnalyzePlain(mains, print) ==
    LET s0 == [NewAnalysis(mains, print) EXCEPT !.config.preApply = FALSE]
        s1 == do(s0, "generateBegin", <<>>)
        s2 == do(genAll(s1), "generateEnd", <<>>)
    IN  solveAll(processNewConstraints(s2))


(***************************************************************************)
(* Termination of the solver.                                              *)
(***************************************************************************)
\* The solver's main loop can go on: the worklist is empty (the loop ends)
\* or the step for a pending node stays within the bound on types.
SolverCanStep ==
    \/ a.work = {}
    \/ \E n \in Pick(a.work), rev \in BOOLEAN : TypeBound(do(a, "solveNode", <<n, rev>>))

\* C1: on every input program the solver's worklist eventually becomes
\* empty.  Every step of the solver but the last leaves a state from which
\* the loop can go on, so a run ends only at its fixed point; a run that
\* creates longer and longer types never gets there, and shows as a state
\* of the solver whose every step would pass the bound MaxTypeLen.
C1_Terminates == a.pc = "solve" => SolverCanStep


(***************************************************************************)
(* Determinism of the result.                                              *)
(***************************************************************************)
\* C2: a finished run has the result (the labels of every queried value
\* and the call-graph edges) of the reference run of the same program and
\* configuration, whatever nodes the solver took from its worklist and in
\* whatever order the solve methods ranged over their deltas.
C2_Deterministic ==
    a.pc = "done" => Result(a) = Result(Analyze(a.config.Mains, a.config.print))

\* A finished run whose node table differs from the reference run's (the
\* objects made while solving were made in another order) and that has
\* call-graph edges and query results.
C2_Witness ==
    /\ a.pc = "done"
    /\ a.nodes # Analyze(a.config.Mains, a.config.print).nodes
    /\ Result(a).edges # {}
    /\ \E q \in Result(a).queries : Cardinality(q[3]) >= 2


(***************************************************************************)
(* Monotonicity of the points-to sets.                                     *)
(***************************************************************************)
\* The kinds of the constraints of reflect.go.
ReflectKinds ==
    {"reflectTypeOf", "reflectChanOf", "rVInterface", "rVMapIndex", "reflectMakeChan",
     "reflectNew", "reflectZero", "rtypeElem", "rtypeMethodByName"}

\* C3: while the solver runs, no step removes a label from a points-to
\* set: every node keeps its labels, and no node disappears.
C3_PtsMonotone ==
    [][a.pc \in {"init", "solve"} =>
          /\ Len(a'.pts) >= Len(a.pts)
          /\ \A n \in 1..Len(a.pts) : a.pts[n] \subseteq a'.pts[n]]_vars

\* A state of the solver in which a reflection constraint, a constraint of
\* another kind and a copy edge have each propagated a label.
C3_Witness ==
    /\ a.pc = "solve"
    /\ \E i \in 1..Len(a.complex) :
          a.complex[i].k \in ReflectKinds /\ a.pts[a.complex[i].dst + 1] # {}
    /\ \E i \in 1..Len(a.complex) :
          a.complex[i].k \notin ReflectKinds /\ a.pts[a.complex[i].dst + 1] # {}
    /\ \E e \in a.copyTo : a.pts[e[2] + 1] # {}


(***************************************************************************)
(* Allocation instructions.                                                *)
(***************************************************************************)
AllocKinds == {"Alloc", "MakeSlice", "MakeChan", "MakeMap", "MakeInterface"}

\* The (direct) queries on allocation instructions: <<v, cgn, valueNode(v)>>.
AllocQueries(s) == {q \in s.queries : V[q[1]].kind \in AllocKinds /\ ~Queries[q[1]]}

\* Node l is the head of the object that instruction v allocates in cgn.
IsObjectOf(s, l, v, cgn) ==
    N(s, l).hdr /\ N(s, l).data = DataVal(v) /\ N(s, l).cgn = cgn

\* C4: for every allocation instruction v generated in a contour, the
\* generator has emitted addr{valueNode(v), objectNode(cgn, v)}, and at the
\* fixed point pts(valueNode(v)) contains the object v allocates in that
\* contour.
C4_AllocAddr ==
    /\ a.pc = "init" =>
          \A q \in AllocQueries(a) :
             \E i \in 1..Len(a.constraints) :
                /\ a.constraints[i].k = "addr"
                /\ a.constraints[i].dst = q[3]
                /\ IsObjectOf(a, a.constraints[i].src, q[1], q[2])
    /\ a.pc = "done" =>
          \A q \in AllocQueries(a) :
             \E l \in a.pts[q[3] + 1] : IsObjectOf(a, l, q[1], q[2])

\* A finished run in which an allocation was generated in two contours
\* and each contour's value points to its own object.
C4_Witness ==
    /\ a.pc = "done"
    /\ \E q1, q2 \in AllocQueries(a) :
          /\ q1[1] = q2[1]
          /\ q1[2] # q2[2]
          /\ a.pts[q1[3] + 1] # {}
          /\ a.pts[q1[3] + 1] \cap a.pts[q2[3] + 1] = {}
    /\ \A k \in {"Alloc", "MakeInterface"} :
          \E q \in AllocQueries(a) : V[q[1]].kind = k /\ a.cgnodes[q[2]].callersite # 0


(***************************************************************************)
(* The context-sensitivity policy.                                         *)
(***************************************************************************)
\* The call sites of the static calls generated so far.
StaticSites(s) ==
    {i \in 1..Len(s.sites) : s.sites[i].instr # "" /\ V[s.sites[i].instr].mode = "static"}

\* The callee of a static call site.
CalleeOf(s, i) == V[s.sites[i].instr].s

\* The contours created for call site i.
ContoursOf(s, i) == {c \in 1..Len(s.cgnodes) : s.cgnodes[c].callersite = i}

\* The call of site i is bound to the function object obj:
\* addr{site.targets, obj} is pending or has been applied.
BoundTo(s, i, obj) ==
    \/ \E k \in 1..Len(s.constraints) :
          /\ s.constraints[k].k = "addr"
          /\ s.constraints[k].dst = s.sites[i].targets
          /\ s.constraints[k].src = obj
    \/ obj \in s.pts[s.sites[i].targets + 1]

\* Site i has a contour of its own, and the call is bound to it.
PerCallsite(s, i) ==
    /\ Cardinality(ContoursOf(s, i)) = 1
    /\ \A c \in ContoursOf(s, i) :
          s.cgnodes[c].fn = CalleeOf(s, i) /\ BoundTo(s, i, s.cgnodes[c].obj)

\* Site i is bound to the shared contour of its callee.
SharedContour(s, i) ==
    /\ ContoursOf(s, i) = {}
    /\ Has(s.globalobj, CalleeOf(s, i))
    /\ BoundTo(s, i, s.globalobj[CalleeOf(s, i)])
    /\ \E c \in 1..Len(s.cgnodes) :
          /\ s.cgnodes[c].obj = s.globalobj[CalleeOf(s, i)]
          /\ s.cgnodes[c].fn = CalleeOf(s, i)
          /\ s.cgnodes[c].callersite = 0

\* The shape of a function.
IsWrapper(fn)  == Fn[fn].synthetic # "" /\ fn # "init"
IsShort(fn)    == Len(Fn[fn].blocks) = 1 /\ Len(Fn[fn].blocks[1]) <= 10
IsCallFree(fn) ==
    \A b \in 1..Len(Fn[fn].blocks) :
       \A i \in 1..Len(Fn[fn].blocks[b]) : ~isNonBuiltinCall(Fn[fn].blocks[b][i])

\* C5 (as stated): a static call creates a per-callsite contour of the
\* callee exactly when the callee is an intrinsic, or a synthetic wrapper,
\* or short and simple (one block, at most 10 instructions, no call to a
\* non-builtin); every other static call is bound to the shared contour.
C5_PolicyAsStated ==
    a.pc # "fatal" =>
       \A i \in StaticSites(a) :
          IF \/ findIntrinsic(CalleeOf(a, i)) # ""
             \/ IsWrapper(CalleeOf(a, i))
             \/ IsShort(CalleeOf(a, i)) /\ IsCallFree(CalleeOf(a, i))
          THEN PerCallsite(a, i)
          ELSE SharedContour(a, i)

\* C5 (amended): a static call creates a per-callsite contour of the callee
\* exactly when the callee is an intrinsic, or has one block of at most 10
\* instructions and is a synthetic wrapper or calls no non-builtin; every
\* other static call is bound to the shared contour.
C5_Policy ==
    a.pc # "fatal" =>
       \A i \in StaticSites(a) :
          IF \/ findIntrinsic(CalleeOf(a, i)) # ""
             \/ /\ IsShort(CalleeOf(a, i))
                /\ IsWrapper(CalleeOf(a, i)) \/ IsCallFree(CalleeOf(a, i))
          THEN PerCallsite(a, i)
          ELSE SharedContour(a, i)

\* The generated code has static calls of a short wrapper that calls a
\* function (own contour), of a wrapper of two blocks (shared), of a
\* function of exactly 10 instructions (own contour), of one of 11
\* (shared) and of a short function that calls another (shared).
C5_Witness ==
    /\ a.pc = "init"
    /\ \E i \in StaticSites(a) :
          /\ IsWrapper(CalleeOf(a, i)) /\ IsShort(CalleeOf(a, i)) /\ ~IsCallFree(CalleeOf(a, i))
          /\ PerCallsite(a, i)
    /\ \E i \in StaticSites(a) :
          IsWrapper(CalleeOf(a, i)) /\ ~IsShort(CalleeOf(a, i)) /\ SharedContour(a, i)
    /\ \E i \in StaticSites(a) :
          /\ Len(Fn[CalleeOf(a, i)].blocks) = 1 /\ Len(Fn[CalleeOf(a, i)].blocks[1]) = 10
          /\ PerCallsite(a, i)
    /\ \E i \in StaticSites(a) :
          /\ Len(Fn[CalleeOf(a, i)].blocks) = 1 /\ Len(Fn[CalleeOf(a, i)].blocks[1]) = 11
          /\ IsCallFree(CalleeOf(a, i)) /\ SharedContour(a, i)
    /\ \E i \in StaticSites(a) :
          /\ ~IsWrapper(CalleeOf(a, i)) /\ IsShort(CalleeOf(a, i)) /\ ~IsCallFree(CalleeOf(a, i))
          /\ SharedContour(a, i)


(***************************************************************************)
(* Context-sensitive getters.                                              *)
(***************************************************************************)
\* fn is a getter: one block without calls to functions, ending in the
\* return of its parameter.
IsGetter(fn) ==
    /\ Len(Fn[fn].params) = 1
    /\ IsShort(fn) /\ IsCallFree(fn) /\ ~IsWrapper(fn) /\ findIntrinsic(fn) = ""
    /\ LET last == Fn[fn].blocks[1][Len(Fn[fn].blocks[1])]
       IN  V[last].kind = "Return" /\ V[last].args = Fn[fn].params

\* The nodes of the object whose head is obj.
Block(s, obj) == obj..(obj + N(s, obj).size - 1)

\* The labels of value v in contour cgn, by the (direct) query on v.
PtsOf(s, v, cgn) == UNION {s.pts[q[3] + 1] : q \in {x \in s.queries : x[1] = v /\ x[2] = cgn}}

\* C6: when a getter is called statically from two call sites, each site
\* has its own function object (its own parameter and result nodes), and
\* at the fixed point the labels of the result at a site are those of the
\* argument at that site: none of them comes only from the other site's
\* argument.
C6_GetterPerSite ==
    \A i, j \in StaticSites(a) :
       (a.pc = "done" /\ i # j /\ CalleeOf(a, i) = CalleeOf(a, j) /\ IsGetter(CalleeOf(a, i))) =>
          /\ PerCallsite(a, i) /\ PerCallsite(a, j)
          /\ \A c \in ContoursOf(a, i), d \in ContoursOf(a, j) :
                /\ isFunctionObject(a, a.cgnodes[c].obj)
                /\ isFunctionObject(a, a.cgnodes[d].obj)
                /\ Block(a, a.cgnodes[c].obj) \cap Block(a, a.cgnodes[d].obj) = {}
          /\ LET ri == PtsOf(a, a.sites[i].instr, a.sites[i].caller)
                 xi == PtsOf(a, V[a.sites[i].instr].args[1], a.sites[i].caller)
                 xj == PtsOf(a, V[a.sites[j].instr].args[1], a.sites[j].caller)
             IN  ri = xi /\ ri \cap (xj \ xi) = {}

\* A finished run with two static calls of one getter whose arguments
\* point to different objects.
C6_Witness ==
    /\ a.pc = "done"
    /\ \E i, j \in StaticSites(a) :
          /\ i # j /\ CalleeOf(a, i) = CalleeOf(a, j) /\ IsGetter(CalleeOf(a, i))
          /\ PtsOf(a, V[a.sites[i].instr].args[1], a.sites[i].caller) # {}
          /\ PtsOf(a, V[a.sites[j].instr].args[1], a.sites[j].caller) # {}
          /\ PtsOf(a, V[a.sites[i].instr].args[1], a.sites[i].caller) \cap
             PtsOf(a, V[a.sites[j].instr].args[1], a.sites[j].caller) = {}
          /\ PtsOf(a, a.sites[i].instr, a.sites[i].caller) # {}


(***************************************************************************)
(* The queue of contours to generate.                                      *)
(***************************************************************************)
\* The contours made by makeFunctionObject (the root has no object).
Contours(s) == {c \in 1..Len(s.cgnodes) : s.cgnodes[c].obj # 0}

\* How often x occurs in the sequence q.
Count(q, x) == Cardinality({i \in 1..Len(q) : q[i] = x})

\* C7: every contour made by makeFunctionObject is enqueued on genq exactly
\* once, contours leave genq in the order they entered it, genFunc runs
\* once on each, and when the analysis completes genq is empty: no contour
\* is left whose body was never generated.
C7_GenqDrained ==
    /\ \A c \in Contours(a) : Count(genned \o a.genq, c) = 1
    /\ \A i, j \in 1..Len(genned \o a.genq) :
          i < j => (genned \o a.genq)[i] < (genned \o a.genq)[j]
    /\ a.pc = "done" => a.genq = <<>> /\ \A c \in Contours(a) : Count(genned, c) = 1


(***************************************************************************)
(* The call graph.                                                         *)
(***************************************************************************)
RECURSIVE ReachFrom(_, _)
\* The nodes that the edges E reach from the nodes S.
ReachFrom(E, S) ==
    LET T == S \cup {e[3] : e \in {x \in E : x[1] \in S}}
    IN  IF T = S THEN S ELSE ReachFrom(E, T)

\* C8: in a finished run every call-graph node other than the root is
\* reachable from the root by call-graph edges.
C8_AllReachable ==
    a.pc = "done" => \A c \in 1..Len(a.cgnodes) : c \in ReachFrom(Edges(a), {a.root})


(***************************************************************************)
(* Print probes.                                                           *)
(***************************************************************************)
\* The print calls of function fn.
PrintCalls(fn) ==
    {v \in Range(Flat(Fn[fn].blocks)) :
        V[v].kind = "Call" /\ V[v].mode = "builtin" /\ V[v].s = "print"}

\* The contours whose body has been generated.
Generated(s) == {c \in Range(genned) : findIntrinsic(s.cgnodes[c].fn) = ""}

\* The generated contours of the function of the print call p.
PrintContours(s, p) == {c \in Generated(s) : p \in PrintCalls(s.cgnodes[c].fn)}

\* The probe node the hook was given for the print call p (0: none).
ProbeNode(s, p) == IF p \in DOMAIN s.probes THEN s.probes[p] ELSE 0

\* Node src is copied to node dst: the constraint is pending or is an edge.
Copies(s, dst, src) ==
    \/ <<src, dst>> \in s.copyTo
    \/ \E k \in 1..Len(s.constraints) :
          s.constraints[k].k = "copy" /\ s.constraints[k].dst = dst /\ s.constraints[k].src = src

\* C9: with a print hook, the hook is called exactly once for each print
\* call whose function has been generated, in however many contours and
\* whatever the type of the argument, and the argument of every contour is
\* copied, node by node, into the one probe of the call.
C9_PrintOnce ==
    a.config.print /\ a.pc # "fatal" =>
       /\ \A p \in Range(a.printLog) : Count(a.printLog, p) = 1
       /\ \A c \in Generated(a) :
             \A p \in PrintCalls(a.cgnodes[c].fn) :
                /\ Count(a.printLog, p) = 1
                /\ ProbeNode(a, p) # 0
                /\ \A q \in a.queries :
                      (q[1] = V[p].args[1] /\ q[2] = c) =>
                         \A k \in 0..(sizeof(V[q[1]].typ) - 1) :
                            Copies(a, ProbeNode(a, p) + k, q[3] + k)

\* A finished run with a hook in which a print call of a struct has been
\* generated in two contours, and a node of the probe has labels of both.
C9_Witness ==
    /\ a.pc = "done" /\ a.config.print
    /\ \E p \in Range(a.printLog) :
          /\ Cardinality(PrintContours(a, p)) >= 2
          /\ sizeof(V[V[p].args[1]].typ) >= 2
          /\ Cardinality({q \in a.queries : q[1] = V[p].args[1]}) >= 2
          /\ \E k \in 1..sizeof(V[V[p].args[1]].typ) :
                Cardinality(a.pts[ProbeNode(a, p) + k]) >= 2


(***************************************************************************)
(* Objects.                                                                *)
(***************************************************************************)
\* The heads of the objects.
Heads(s) == {h \in 0..(Len(s.nodes) - 1) : N(s, h).hdr}

\* C10: in every reachable state the block of an object has its header on
\* its first node and on no other: the blocks of distinct objects neither
\* overlap nor nest.
C10_ObjectsDisjoint ==
    \A h \in Heads(a) :
       /\ h + N(a, h).size <= Len(a.nodes)
       /\ \A i \in (h + 1)..(h + N(a, h).size - 1) : ~N(a, i).hdr

\* A state with objects of several nodes made by the generator (values,
\* function objects, tagged objects, a conversion, append, os.Args) or by
\* the solve steps of reflection.
C10_Witness ==
    /\ \E h \in Heads(a) : "Function" \in N(a, h).flags /\ N(a, h).size >= 3
    /\ \E h \in Heads(a) : "Tagged" \in N(a, h).flags /\ N(a, h).size >= 2
    /\ \/ /\ a.pc = "init"
          /\ \E h \in Heads(a) : N(a, h).data = DataStr("<command-line args>")
          /\ \E h \in Heads(a) : N(a, h).data = <<>> /\ N(a, h).flags = {} /\ N(a, h).size >= 2
       \/ /\ a.pc = "done"
          /\ \E h \in Heads(a) : N(a, h).data = <<>> /\ N(a, h).cgn # 0


(***************************************************************************)
(* The node table.                                                         *)
(***************************************************************************)
\* addOneNode on the state s: the id it returns is nextNode() before the
\* call, nextNode() grows by one, and the nodes there were are untouched.
AppendsOne(s, typ) ==
    LET s1 == addOneNode(s, typ)
    IN  /\ s1.ret = nextNode(s)
        /\ nextNode(s1) = nextNode(s) + 1
        /\ SubSeq(s1.nodes, 1, Len(s.nodes)) = s.nodes
        /\ N(s1, s1.ret).typ = typ

\* The slot of node i is the same in s and t: its type, and its object
\* header once it has one.
SameSlot(s, t, i) ==
    /\ t.nodes[i].typ = s.nodes[i].typ
    /\ s.nodes[i].hdr =>
          /\ t.nodes[i].hdr
          /\ t.nodes[i].size = s.nodes[i].size
          /\ t.nodes[i].cgn = s.nodes[i].cgn
          /\ t.nodes[i].data = s.nodes[i].data

\* C11: the node table is append-only.  In every state addOneNode returns
\* nextNode() and raises it by exactly one; and no step of generation or
\* solving makes nextNode() smaller or changes the slot of an id (the type
\* of a node, the header of an object), and the points-to table has one
\* entry per node.
C11_AppendOnly ==
    /\ [](a.fatal = "" =>
             /\ \A typ \in {tInvalid, tEface, PtrInt} : AppendsOne(a, typ)
             /\ Len(a.pts) = Len(a.nodes))
    /\ [][/\ nextNode(a') >= nextNode(a)
          /\ \A i \in 1..Len(a.nodes) : SameSlot(a, a', i)]_vars

\* A state of the solver in which solve steps have added nodes and
\* objects (rtype objects exist only once the solver has made them) to a
\* table that generation had filled.
C11_Witness ==
    /\ a.pc = "solve"
    /\ a.rtypes # EmptyMap
    /\ \E h \in Heads(a) : N(a, h).data # <<>> /\ N(a, h).data[1] = "type" /\ h > a.panicNode + 20

(***************************************************************************)
(* The zero node.                                                          *)
(***************************************************************************)
\* Node ids the primitives are tried with: the zero node, the first and the
\* last node of the table.
ProbeIds(s) == {0} \cup (IF nextNode(s) > 1 THEN {1, nextNode(s) - 1} ELSE {})

\* addressOf(id, obj) with a zero operand is fatal and adds nothing;
\* otherwise it adds exactly the constraint id = &obj.
AddressOfGuarded(s, id, obj) ==
    LET s1 == addressOf(s, id, obj)
    IN  IF id = 0 \/ obj = 0
        THEN s1.fatal # "" /\ s1.constraints = s.constraints
        ELSE s1.fatal = "" /\ s1.constraints = Append(s.constraints, Con("addr", id, obj))

\* copy(dst, src, n) is a no-op when trivial, fatal and without effect on
\* the constraints when an operand is zero, and n copies otherwise.
CopyGuarded(s, dst, src, n) ==
    LET s1 == copy(s, dst, src, n)
    IN  IF n = 0 \/ src = dst THEN s1 = s
        ELSE IF src = 0 \/ dst = 0
        THEN s1.fatal # "" /\ s1.constraints = s.constraints
        ELSE /\ s1.fatal = ""
             /\ Len(s1.constraints) = Len(s.constraints) + n
             /\ \A i \in 1..n :
                    s1.constraints[Len(s.constraints) + i] = Con("copy", dst + i - 1, src + i - 1)

\* C12: node 0 is never the destination or the object of an addr
\* constraint, nor the source or destination of an emitted copy constraint:
\* addressOf with a zero id or object, and a non-trivial copy with a zero
\* source or destination, end the run with a fatal error and add no
\* constraint; a copy of width 0 or of a node to itself adds nothing and
\* raises no error.
C12_ZeroGuard ==
    /\ \A i \in DOMAIN a.constraints :
           a.constraints[i].k \in {"addr", "copy"} =>
               a.constraints[i].dst # 0 /\ a.constraints[i].src # 0
    /\ \A i \in DOMAIN a.pts : 0 \notin a.pts[i] /\ (i = 1 => a.pts[i] = {})
    /\ a.fatal = "" =>
           /\ \A id \in ProbeIds(a), obj \in ProbeIds(a) : AddressOfGuarded(a, id, obj)
           /\ \A dst \in ProbeIds(a), src \in ProbeIds(a), n \in 0..2 :
                  CopyGuarded(a, dst, src, n)

\* Generation has emitted addr and copy constraints, and the run is alive.
C12_Witness ==
    /\ a.pc = "gen"
    /\ a.fatal = ""
    /\ \E i \in DOMAIN a.constraints : a.constraints[i].k = "addr"
    /\ \E i \in DOMAIN a.constraints : a.constraints[i].k = "copy"
    /\ nextNode(a) > 2

(***************************************************************************)
(* Types without nodes.                                                    *)
(***************************************************************************)
NumericTypes == {tInt, <<"bool">>}

RECURSIVE HasPointerLike(_)
\* Does t contain a scalar that is not numeric or bool?
HasPointerLike(t) ==
    CASE Kind(t) = "struct" ->
             \E i \in DOMAIN StructFields[t[1]] : HasPointerLike(StructFields[t[1]][i])
      [] Kind(t) = "array"  -> HasPointerLike(Elem(t))
      [] Kind(t) = "tuple"  ->
             \E i \in DOMAIN TupleElems(t) : HasPointerLike(TupleElems(t)[i])
      [] OTHER              -> t \notin NumericTypes

\* The types addNodes is tried with.
SampleTypes ==
    { tInt, <<"bool">>, tString, tEface, PtrInt, <<"T">>, <<"D">>, <<"Method">>, <<"M">>,
      <<"array", "int">>, <<"array", "ptr", "int">>, <<"chan", "int">>, <<"func", "G">>,
      <<"results", "main">>, <<"params", "main">>, <<"results", "RMeth">>,
      <<"params", "ChanOf">>, <<"results", "G">> }

\* addNodes(t) makes sizeof(t) consecutive nodes, typed as flatten(t), and
\* returns the first; it makes none and returns 0 if sizeof(t) = 0.
AddNodesExact(s, t) ==
    LET s1 == addNodes(s, t)
        n  == sizeof(t)
    IN  /\ SubSeq(s1.nodes, 1, Len(s.nodes)) = s.nodes
        /\ nextNode(s1) = nextNode(s) + n
        /\ s1.ret = IF n = 0 THEN 0 ELSE nextNode(s)
        /\ \A i \in 1..n : N(s1, nextNode(s) + i - 1).typ = flatten(t)[i]

\* The value nodes of the function being generated, of the globals and of
\* the values queried directly.
ValueNodes(s) ==
    {<<v, s.localval[v]>> : v \in DOMAIN s.localval}
        \cup {<<v, s.globalval[v]>> : v \in DOMAIN s.globalval}
        \cup {<<q[1], q[3]>> : q \in {r \in s.queries : ~Queries[r[1]]}}

\* The node ids the pending constraints name.
ConstrainedNodes(s) ==
    {s.constraints[i].dst : i \in DOMAIN s.constraints}
        \cup {s.constraints[i].src : i \in DOMAIN s.constraints}

C14_PreApplied ==
    a.pc = "done" =>
        /\ Result(a).queries = Result(AnalyzePlain(a.config.Mains, a.config.print)).queries
        /\ \A o \in a.objlog, q \in a.queries :
               (q[1] = o[1] /\ q[2] = o[2] /\ ~Queries[q[1]]) => a.pts[q[3] + 1] = {o[3]}
        /\ \A o \in a.objlog :
               (o[2] = 0 /\ Has(a.globalval, o[1])) => a.pts[a.globalval[o[1]] + 1] = {o[3]}

\* A finished run in which a load and a store were pre-applied against the
\* object of a field address and of an element address.
C14_Witness ==
    /\ a.pc = "done"
    /\ \E o \in a.objlog : V[o[1]].kind = "IndexAddr"
    /\ \E o \in a.objlog : V[o[1]].kind = "MakeSlice"
    /\ \E q \in a.queries : q[1] = "cv.id" /\ a.pts[q[3] + 1] # {}
    /\ a.complex # <<>>

(***************************************************************************)
(* Maps.                                                                   *)
(***************************************************************************)
\* The make-map objects: (head node, the MakeMap instruction).
MapObjects(s) ==
    {<<h, N(s, h).data[2]>> : h \in {g \in Heads(s) :
        /\ N(s, g).data # <<>>
        /\ N(s, g).data[1] = "val"
        /\ V[N(s, g).data[2]].kind = "MakeMap"}}

\* The value nodes of value v in contour cgn, as the queries record them.
QueriedNodes(s, v, cgn) == {q[3] : q \in {r \in s.queries : r[1] = v /\ r[2] = cgn}}

\* pts(src + i) is included in pts(dst + i) for the n nodes of a value.
Flowed(s, dst, src, n) == \A i \in 0..(n - 1) : s.pts[src + i + 1] \subseteq s.pts[dst + i + 1]

\* The object of a make(map[K]V) is the nodes of K followed by those of V.
MapLayout(s, h, m) ==
    LET K == Key(V[m].typ)
        E == Elem(V[m].typ)
    IN  /\ N(s, h).size = sizeof(K) + sizeof(E)
        /\ \A i \in 1..(sizeof(K) + sizeof(E)) :
               N(s, h + i - 1).typ = (flatten(K) \o flatten(E))[i]

\* At the fixed point: pts(m) is the map object, every update of m has
\* flowed its key to offset 0 and its value to offset sizeof(K), and every
\* lookup on m holds what is at offset sizeof(K).
MapFlows(s, h, m) ==
    LET ksize == sizeof(Key(V[m].typ))
        vsize == sizeof(Elem(V[m].typ))
        cgn   == N(s, h).cgn
    IN  /\ \A n \in QueriedNodes(s, m, cgn) : s.pts[n + 1] = {h}
        /\ \A u \in {x \in DOMAIN V : V[x].kind = "MapUpdate" /\ V[x].x = m} :
               /\ \A k \in QueriedNodes(s, V[u].y, cgn) \cup
                           (IF Has(s.globalval, V[u].y) THEN {s.globalval[V[u].y]} ELSE {}) :
                      Flowed(s, h, k, ksize)
               /\ \A x \in QueriedNodes(s, V[u].args[1], cgn) :
                      /\ Flowed(s, h + ksize, x, vsize)
                      /\ \A l \in {y \in DOMAIN V : V[y].kind = "Lookup" /\ V[y].x = m} :
                             \A r \in QueriedNodes(s, l, cgn) : Flowed(s, r, x, vsize)
        /\ \A l \in {y \in DOMAIN V : V[y].kind = "Lookup" /\ V[y].x = m} :
               \A r \in QueriedNodes(s, l, cgn) :
                   \A j \in 0..(vsize - 1) : s.pts[r + j + 1] = s.pts[h + ksize + j + 1]

\* C15: the object of make(map[K]V) is sizeof(K) key nodes followed by
\* sizeof(V) value nodes; an update stores the key at offset 0 and the value
\* at offset sizeof(K), a lookup loads sizeof(V) nodes from offset
\* sizeof(K); at the fixed point every lookup on m includes every label
\* stored as a value into m, and pts(m) is the single make-map object.
C15_MapLayout ==
    /\ \A o \in MapObjects(a) : MapLayout(a, o[1], o[2])
    /\ a.pc = "done" => \A o \in MapObjects(a) : MapFlows(a, o[1], o[2])

\* A finished run with a map whose key takes three nodes: the key's label
\* is at offset 2 of the map object, and a lookup has the stored value.
C15_Witness ==
    /\ a.pc = "done"
    /\ \E o \in MapObjects(a) :
           /\ o[2] = "cv.m2"
           /\ sizeof(Key(V[o[2]].typ)) = 3
           /\ a.pts[o[1] + 2 + 1] # {}
           /\ a.pts[o[1] + 3 + 1] # {}
           /\ \E r \in QueriedNodes(a, "cv.lk2", N(a, o[1]).cgn) : a.pts[r + 1] # {}

(***************************************************************************)
(* append.                                                                 *)
(***************************************************************************)
\* The calls of append.
Appends == {v \in DOMAIN V : V[v].kind = "Call" /\ V[v].mode = "builtin" /\ V[v].s = "append"}

\* The state in which genInstr reaches the append z in contour cgn: the
\* value nodes of z and of its operands exist, and the operands' own
\* instructions have been generated.
BeforeAppend(s, z, cgn) ==
    LET ops == V[z].args
        s0  == [s EXCEPT !.localval = EmptyMap, !.localobj = EmptyMap]
    IN  genInstrs(createValueNodes(s0, cgn, ops \o <<z>>), cgn, ops)

\* The constraints an operation has added.
Emitted(s, t) == SubSeq(t.constraints, Len(s.constraints) + 1, Len(t.constraints))

\* What genAppend does for z = append(x, y) and for z = append(x).
AppendEmits(s, z, cgn) ==
    LET s1   == BeforeAppend(s, z, cgn)
        t    == genAppend(s1, z, cgn)
        zn   == s1.localval[z]
        xn   == s1.localval[V[z].args[1]]
        w    == nextNode(s1)
        tArr == sliceToArray(V[V[z].args[1]].typ)
        esz  == sizeof(Elem(tArr))
        tmp  == w + sizeof(tArr)
        yobj == s1.localobj[V[z].args[2]]
        new  == Emitted(s1, t)
    IN  /\ t.fatal = ""
        /\ new # <<>> /\ new[1] = Con("copy", zn, xn)
        /\ IF Len(V[z].args) = 1
           THEN Len(new) = 1 /\ t.nodes = s1.nodes
           ELSE /\ Heads(t) \ Heads(s1) = {w}
                /\ N(t, w).typ = tArr /\ N(t, w).size = sizeof(tArr)
                /\ N(t, w).data = DataVal(z) /\ N(t, w).cgn = cgn
                /\ nextNode(t) = tmp + esz
                /\ Len(new) = 2 + 2 * esz
                /\ \A i \in 1..esz :
                       /\ new[1 + i] = Con("copy", tmp + i - 1, yobj + 1 + i - 1)
                       /\ new[1 + esz + i] =
                              [Con("store", zn, tmp + i - 1) EXCEPT !.offset = 1 + i - 1]
                /\ new[Len(new)] = Con("addr", zn, w)

\* The fixed point of an append: pts(z) includes pts(x); with a second
\* operand it holds the label of the one object allocated for z, and the
\* elements of every array z points to include the elements of y.
AppendFlows(s, z) ==
    \A q \in {r \in s.queries : r[1] = z} :
        LET zn == q[3]
            ws == {h \in Heads(s) : N(s, h).data = DataVal(z) /\ N(s, h).cgn = q[2]}
        IN  /\ \A xn \in QueriedNodes(s, V[z].args[1], q[2]) : s.pts[xn + 1] \subseteq s.pts[zn + 1]
            /\ IF Len(V[z].args) = 1 THEN ws = {}
               ELSE /\ Cardinality(ws) = 1
                    /\ ws \subseteq s.pts[zn + 1]
                    /\ \A yn \in QueriedNodes(s, V[z].args[2], q[2]) :
                           \A yo \in s.pts[yn + 1], zo \in s.pts[zn + 1] :
                               s.pts[yo + 1 + 1] \subseteq s.pts[zo + 1 + 1]

\* C16: for z = append(x, y) the generator emits the copy z = x, allocates
\* exactly one fresh array object w for the slice's elements, emits the
\* element transfer *z = *y and the addr z = &w, so that the final pts(z)
\* includes pts(x) and the label w; for z = append(x) alone it emits only
\* the copy and allocates no object.
C16_Append ==
    /\ (a.pc = "gen" /\ a.genq # <<>>) =>
           \A z \in Appends : AppendEmits(a, z, Head(a.genq))
    /\ a.pc = "done" => \A z \in Appends : AppendFlows(a, z)

\* A finished run with both forms of append: z = append(x, y) points to the
\* array of x and to its own array, whose element holds the element of y.
C16_Witness ==
    /\ a.pc = "done"
    /\ \E q \in a.queries : q[1] = "cv.ap1" /\ a.pts[q[3] + 1] # {}
    /\ \E q \in a.queries :
           /\ q[1] = "cv.ap"
           /\ Cardinality(a.pts[q[3] + 1]) = 2
           /\ \A o \in a.pts[q[3] + 1] : a.pts[o + 1 + 1] # {}

(***************************************************************************)
(* reflect.Zero.                                                           *)
(***************************************************************************)
\* The tagged objects the Zero constraints have made: tagged, without
\* data, in a contour of reflect.Zero.
ZeroObjects(s) ==
    {h \in Heads(s) :
        /\ "Tagged" \in N(s, h).flags
        /\ N(s, h).data = <<>>
        /\ N(s, h).cgn # 0
        /\ s.cgnodes[N(s, h).cgn].fn = "reflect.Zero"}

\* C17: reflect.Zero caches its result per type: whenever the Zero
\* constraint fires for rtype labels of the same type T, in the same or in
\* different contours, the same tagged object flows to the result, so at
\* most one Zero tagged object per type ever exists.
C17_ZeroMemo ==
    \A h1 \in ZeroObjects(a), h2 \in ZeroObjects(a) :
        N(a, h1).typ = N(a, h2).typ => h1 = h2

(***************************************************************************)
(* The canonical rtype objects.                                            *)
(***************************************************************************)
\* The *rtype-tagged objects, and the rtype objects they stand for.
RtypeTagged(s) ==
    {h \in Heads(s) : "Tagged" \in N(s, h).flags /\ N(s, h).typ = reflectRtypePtr}
RtypeObjects(s, T) ==
    {h \in Heads(s) : "Tagged" \notin N(s, h).flags /\ N(s, h).data = DataType(T)
                      /\ N(s, h).cgn = 0 /\ N(s, h).typ = T}

\* Types makeRtype is tried with when they have no rtype yet.
RtypeSamples == {tInt, PtrInt, <<"M">>, <<"chan", "int">>, <<"T">>}

\* The first makeRtype(T): an rtype object, a tagged object whose payload
\* has type T, one addr constraint from the payload to the rtype object.
FirstMakeRtype(s, T) ==
    LET s1  == makeRtype(s, T)
        obj == nextNode(s)
        id  == obj + 1
    IN  /\ s1.ret = id /\ s1.rtypes = Put(s.rtypes, T, id)
        /\ nextNode(s1) = nextNode(s) + 3
        /\ Heads(s1) \ Heads(s) = {obj, id}
        /\ RtypeTagged(s1) \ RtypeTagged(s) = {id}
        /\ rtypeTaggedValue(s1, id) = T
        /\ Emitted(s, s1) = <<Con("addr", id + 1, obj)>>

\* A later makeRtype(T): the same id, and nothing else changes.
LaterMakeRtype(s, T) == makeRtype(s, T) = [s EXCEPT !.ret = s.rtypes[T]]

\* The payload of the tagged object of T points to the rtype object of T
\* and to nothing else; until its addr constraint is processed it is empty.
RtypePayload(s, T) ==
    LET id == s.rtypes[T]
    IN  /\ Cardinality(RtypeObjects(s, T)) = 1
        /\ \A obj \in RtypeObjects(s, T) :
               \/ s.pts[id + 2] = {obj}
               \/ /\ s.pts[id + 2] = {}
                  /\ \E i \in DOMAIN s.constraints : s.constraints[i] = Con("addr", id + 1, obj)
        /\ s.pc = "done" => s.pts[id + 2] = RtypeObjects(s, T)

\* C18: makeRtype is canonical per type.  In every reachable state there
\* is at most one *rtype-tagged object per type T, the one a.rtypes holds;
\* the first makeRtype(T) creates it, every later makeRtype(T) returns the
\* same id and adds no node and no constraint, and the payload of the
\* tagged object points to exactly the single rtype object of T.
C18_RtypeCanonical ==
    a.fatal = "" =>
        /\ \A h \in RtypeTagged(a) :
               /\ Has(a.rtypes, rtypeTaggedValue(a, h))
               /\ a.rtypes[rtypeTaggedValue(a, h)] = h
        /\ \A T \in DOMAIN a.rtypes :
               /\ a.rtypes[T] \in RtypeTagged(a)
               /\ LaterMakeRtype(a, T)
               /\ RtypePayload(a, T)
        /\ nextNode(a) > 0 =>
               \A T \in RtypeSamples \ DOMAIN a.rtypes : FirstMakeRtype(a, T)

\* A finished run with the rtypes of at least three types, made by TypeOf
\* and by the methods of *rtype during solving.
C18_Witness ==
    /\ a.pc = "done"
    /\ Cardinality(DOMAIN a.rtypes) >= 3
    /\ \A T \in DOMAIN a.rtypes : a.pts[a.rtypes[T] + 2] # {}

(***************************************************************************)
(* reflect.ChanOf.                                                         *)
(***************************************************************************)
\* The calls of reflect.ChanOf: static, or through a function value.
ChanOfCalls ==
    {v \in DOMAIN V :
        /\ V[v].kind = "Call"
        /\ \/ V[v].mode = "static" /\ V[v].s = "reflect.ChanOf"
           \/ V[v].mode = "dynamic" /\ V[v].sig = "ChanOf"}

\* The types of the *rtype-tagged objects a node points to.
RtypesAt(s, n) == {rtypeTaggedValue(s, l) : l \in s.pts[n + 1]}

\* The channel constructor of reflect.RecvDir, SendDir and BothDir.
ChanKind(dir) == CASE dir = 1 -> "chanR" [] dir = 2 -> "chanS" [] OTHER -> "chan"
AllChanKinds == {"chanR", "chanS", "chan"}

\* The direction argument of the call is a constant the contour can see.
ConstDir(v) == V[v].mode = "static" /\ V[V[v].args[1]].kind = "Const"

\* The channel types the result of call v must hold, given the types of t.
ChanTypes(v, kinds, ts) == {<<k>> \o T : k \in kinds, T \in ts}

\* C19 as stated: with a constant direction argument the result holds, for
\* each type T in pts(t), only the rtype of the one channel of T with that
\* direction; otherwise it holds the rtypes of all three directions.
C19_ChanOfAsStated ==
    a.pc = "done" =>
        \A v \in ChanOfCalls : \A q \in {r \in a.queries : r[1] = v} :
            \A tn \in QueriedNodes(a, V[v].args[2], q[2]) :
                IF ConstDir(v)
                THEN Cardinality(RtypesAt(a, q[3])) = Cardinality(RtypesAt(a, tn))
                ELSE RtypesAt(a, q[3]) = ChanTypes(v, AllChanKinds, RtypesAt(a, tn))

\* The channel constructors call v asks for: the one of its direction when
\* the argument is a constant 1, 2 or 3 at a static call, all three otherwise.
KindsOf(v) ==
    IF ConstDir(v) /\ V[V[v].args[1]].n \in 1..3
    THEN {ChanKind(V[V[v].args[1]].n)}
    ELSE AllChanKinds

\* C19, amended: if the direction argument is a constant 1, 2 or 3
\* (RecvDir, SendDir, BothDir) at a static call site, the result holds for
\* each type T in pts(t) only the rtype of the channel of T with that
\* direction; if it is not a constant, is a constant that is no direction
\* (0 or above 3), or the contour has no call site, the result holds the
\* rtypes of all three directions.
C19_ChanOf ==
    \A v \in ChanOfCalls : \A q \in {r \in a.queries : r[1] = v} :
        \A tn \in QueriedNodes(a, V[v].args[2], q[2]) :
            /\ \A l \in a.pts[q[3] + 1] : rtypeTaggedOk(a, l)
            /\ RtypesAt(a, q[3]) \subseteq ChanTypes(v, KindsOf(v), RtypesAt(a, tn))
            /\ a.pc = "done" =>
                   RtypesAt(a, q[3]) = ChanTypes(v, KindsOf(v), RtypesAt(a, tn))

\* A finished run with a ChanOf of constant direction SendDir (one channel
\* type), of constant 0, of a computed direction and through a function
\* value (three channel types each).
C19_Witness ==
    /\ a.pc = "done"
    /\ \E q \in a.queries : q[1] = "cd.c2" /\ RtypesAt(a, q[3]) = {<<"chanS", "ptr", "int">>}
    /\ \A v \in {"cd.c0", "cd.cn", "cd.cd"} :
           \E q \in a.queries : q[1] = v /\ Cardinality(RtypesAt(a, q[3])) = 3

(***************************************************************************)
(* Conversions from unsafe.Pointer.                                        *)
(***************************************************************************)
\* The conversions unsafe.Pointer -> *T of function fn.
UnsafeConvs(fn) ==
    {v \in Range(Flat(Fn[fn].blocks)) :
        V[v].kind = "Convert" /\ V[V[v].x].typ = tUnsafePtr /\ Kind(V[v].typ) = "ptr"}

\* The objects allocated for conversion c in contour cgn.
ConvObjects(s, c, cgn) ==
    {h \in Heads(s) : N(s, h).data = DataVal(c) /\ N(s, h).cgn = cgn}

\* The warnings about conversion c.
ConvWarnings(s, c) ==
    {i \in DOMAIN s.warnings : s.warnings[i] = <<"unsound: unsafe.Pointer conversion", c>>}

\* Conversion c, generated in contour cgn, has one object of its own of the
\* pointee type; at the fixed point the result points to it and to nothing
\* else, and no other queried value points to it.
ConvAllocates(s, c, cgn) ==
    LET tElem == mustDeref(V[c].typ)
    IN  /\ Cardinality(ConvObjects(s, c, cgn)) = 1
        /\ \A h \in ConvObjects(s, c, cgn) :
               /\ N(s, h).size = sizeof(tElem)
               /\ \A i \in 1..sizeof(tElem) : N(s, h + i - 1).typ = flatten(tElem)[i]
               /\ s.pc = "done" =>
                      \A q \in s.queries :
                          IF q[1] = c /\ q[2] = cgn THEN s.pts[q[3] + 1] = {h}
                          ELSE ~Queries[q[1]] => h \notin s.pts[q[3] + 1]

StubIntrinsics == {"reflect.MakeFunc", "reflect.Select", "reflect.NewAt"}

\* The contours of stubbed intrinsics whose genFunc has run.
StubContours(s) == {c \in Range(genned) : s.cgnodes[c].fn \in StubIntrinsics}

\* The constraints that belong to contour c.
ConstraintsOf(s, c) == {i \in 1..Len(s.constraints) : s.constraints[i].cgn = c}

\* C21: every generated contour of a stubbed intrinsic (reflect.MakeFunc,
\* reflect.Select, reflect.NewAt) has emitted no constraint, has added one
\* unsoundness warning to the warning list, and has raised no fatal error.
C21_StubWarns ==
    /\ StubContours(a) # {} => a.fatal = ""
    /\ \A c \in StubContours(a) : ConstraintsOf(a, c) = {}
    /\ Len(a.warnings) >= Cardinality(StubContours(a))

(***************************************************************************)
(* C22: configuration errors.                                              *)
(***************************************************************************)
\* An entry package of the configuration has no main function.
NoMain(s) == \E i \in 1..Len(s.config.Mains) : Packages[s.config.Mains[i]].main = ""

\* A package is listed twice among the entry packages.
DuplicateMain(s) ==
    \E i, j \in 1..Len(s.config.Mains) : i < j /\ s.config.Mains[i] = s.config.Mains[j]

\* The run has stopped with a fatal error before any genFunc.
StoppedBeforeGen(s) == s.pc \in {"start", "fatal"} /\ genned = <<>>

\* C22: if an entry package has no main function, or the same package is
\* listed twice among the entry packages, the analysis stops with a fatal
\* error before the constraints of any function are generated and gives no
\* result.
C22_ConfigError == NoMain(a) \/ DuplicateMain(a) => StoppedBeforeGen(a)

\* The half of C22 about a missing main function.
C22_NoMainFatal ==
    NoMain(a) => /\ StoppedBeforeGen(a)
                 /\ a.pc = "fatal" => a.fatal = "no main function"

\* A run on a package without main function has stopped on its fatal error.
C22_NoMainWitness == NoMain(a) /\ a.pc = "fatal" /\ Len(a.config.Mains) = 2

\* A run with a duplicated entry package has finished with a result.
C22_DuplicateAccepted ==
    DuplicateMain(a) /\ a.pc = "done" /\ Len(a.sites) >= 2 /\ genned # <<>>

(***************************************************************************)
(* C23: nodes whose points-to set grows in a solve step.                   *)
(***************************************************************************)
\* Node n - 1 has a label after the step that it did not have before.
GainedLabel(n) ==
    IF n > Len(a.pts) THEN a'.pts[n] # {} ELSE ~(a'.pts[n] \subseteq a.pts[n])

\* The nodes that are the target node of an invoke constraint.
InvokeTargets(s) == {s.complex[i].dst : i \in {j \in 1..Len(s.complex) : s.complex[j].k = "invoke"}}

\* Node id is the payload node of a tagged object and nothing is attached
\* to it: no complex constraint, no copy edge.
BarePayload(s, id) ==
    /\ id > 0 /\ N(s, id - 1).hdr /\ "Tagged" \in N(s, id - 1).flags
    /\ \A i \in 1..Len(s.complex) : ptr(s.complex[i]) # id
    /\ \A e \in s.copyTo : e[1] # id

FuncBlock(sig) ==
    << <<"func", sig>> >> \o (IF Sigs[sig].recv # <<>> THEN flatten(Sigs[sig].recv) ELSE <<>>)
        \o flattenAll(Sigs[sig].params) \o flattenAll(Sigs[sig].results)

\* The function object of contour c has the layout of its signature.
FuncLayout(s, c) ==
    LET obj  == s.cgnodes[c].obj
        sig  == Fn[s.cgnodes[c].fn].sig
        want == FuncBlock(sig)
        recv == IF Sigs[sig].recv # <<>> THEN sizeof(Sigs[sig].recv) ELSE 0
    IN  /\ N(s, obj).hdr /\ "Function" \in N(s, obj).flags
        /\ N(s, obj).size = Len(want) /\ N(s, obj).cgn = c
        /\ \A i \in 1..Len(want) : N(s, obj + i - 1).typ = want[i]
        /\ funcParams(s, obj) = obj + 1
        /\ funcResults(s, obj) = obj + 1 + recv + Len(flattenAll(Sigs[sig].params))
        /\ funcResults(s, obj) + Len(flattenAll(Sigs[sig].results)) = obj + N(s, obj).size

\* The offset of element k in a sequence of values laid out one after another.
RECURSIVE OffsetIn(_, _)
OffsetIn(vs, k) == IF k = 1 THEN 0 ELSE sizeof(V[vs[k - 1]].typ) + OffsetIn(vs, k - 1)

\* The generated contours of functions with a body that static call site i
\* is bound to.
CalleeContours(s, i) ==
    {c \in Range(genned) : /\ s.cgnodes[c].fn = CalleeOf(s, i)
                           /\ Fn[s.cgnodes[c].fn].blocks # <<>>
                           /\ findIntrinsic(s.cgnodes[c].fn) = ""
                           /\ BoundTo(s, i, s.cgnodes[c].obj)}

\* Block copy of n nodes from src to dst.
CopiesN(s, dst, src, n) == \A o \in 0..(n - 1) : Copies(s, dst + o, src + o)

\* The value node genFunc gave each parameter of contour c is the node of
\* the params block that the call at site i copies the actual argument to.
ParamsMatch(s, i, c) ==
    LET ps   == Fn[s.cgnodes[c].fn].params
        args == V[s.sites[i].instr].args
        obj  == s.cgnodes[c].obj
    IN  /\ Len(ps) = Len(args)
        /\ \A k \in 1..Len(ps) :
               /\ \A pn \in QueriedNodes(s, ps[k], c) :
                      /\ pn = funcParams(s, obj) + OffsetIn(ps, k)
                      /\ pn + sizeof(V[ps[k]].typ) <= funcResults(s, obj)
                      /\ \A an \in QueriedNodes(s, args[k], s.sites[i].caller) :
                             CopiesN(s, pn, an, sizeof(V[ps[k]].typ))
               /\ ps[k] \in DOMAIN Queries => QueriedNodes(s, ps[k], c) # {}

\* The Return instructions of function fn.
Returns(fn) == {r \in Range(Flat(Fn[fn].blocks)) : V[r].kind = "Return"}

\* The nodes every Return of contour c copies into are the nodes the call
\* at site i copies its result from.
ResultsMatch(s, i, c) ==
    LET fn   == s.cgnodes[c].fn
        obj  == s.cgnodes[c].obj
        call == s.sites[i].instr
    IN  /\ \A r \in Returns(fn) : \A k \in 1..Len(V[r].args) :
               \A rn \in QueriedNodes(s, V[r].args[k], c) :
                   /\ CopiesN(s, funcResults(s, obj) + OffsetIn(V[r].args, k), rn,
                              sizeof(V[V[r].args[k]].typ))
                   /\ funcResults(s, obj) + OffsetIn(V[r].args, k)
                          + sizeof(V[V[r].args[k]].typ) <= obj + N(s, obj).size
        /\ \A cn \in QueriedNodes(s, call, s.sites[i].caller) :
               CopiesN(s, cn, funcResults(s, obj), sizeof(<<"results", V[call].sig>>))

\* C24: every function object is laid out as [identity, receiver if any,
\* parameters, results] with the Function flag on its head; funcParams is
\* obj+1 and funcResults is obj+1+sizeof(receiver)+sizeof(params); the
\* parameter nodes genFunc assigns in a contour are the nodes genStaticCall
\* copies the arguments to, and the nodes Return copies into are the nodes
\* genStaticCall copies the result from.
C24_FuncObject ==
    /\ \A c \in Contours(a) : FuncLayout(a, c)
    /\ \A i \in StaticSites(a) : \A c \in CalleeContours(a, i) :
           ParamsMatch(a, i, c) /\ ResultsMatch(a, i, c)

\* The call of the method T.m has been generated: a function object with a
\* three-node receiver, one parameter and four result nodes, whose queried
\* receiver, parameter and call result lie in its blocks.
C24_Witness ==
    \E i \in StaticSites(a) : \E c \in CalleeContours(a, i) :
        /\ a.cgnodes[c].fn = "T.m"
        /\ N(a, a.cgnodes[c].obj).size = 9
        /\ funcResults(a, a.cgnodes[c].obj) = a.cgnodes[c].obj + 5
        /\ QueriedNodes(a, "Tm.recv", c) = {a.cgnodes[c].obj + 1}
        /\ QueriedNodes(a, "Tm.p", c) = {a.cgnodes[c].obj + 4}
        /\ QueriedNodes(a, "ty.c", a.sites[i].caller) # {}
        /\ QueriedNodes(a, "ty.tv", a.sites[i].caller) # {}

(***************************************************************************)
(* C25: constraint generation terminates.                                  *)
(***************************************************************************)
\* The number of per-callsite contours on the way from contour c to a
\* shared contour or the root.
RECURSIVE ChainLen(_, _)
ChainLen(s, c) ==
    IF s.cgnodes[c].callersite = 0 THEN 0
    ELSE 1 + ChainLen(s, s.sites[s.cgnodes[c].callersite].caller)

\* Every function has at most one shared contour and every call site at
\* most one contour of its own.
ContoursMemoized(s) ==
    \A c1, c2 \in Contours(s) :
        /\ s.cgnodes[c1].callersite = s.cgnodes[c2].callersite
        /\ s.cgnodes[c1].callersite = 0 => s.cgnodes[c1].fn = s.cgnodes[c2].fn
        => c1 = c2

\* Contour c belongs to a static call of its function, selected by the
\* policy, in a contour that has been generated.
FromStaticCall(s, g, c) ==
    LET i == s.cgnodes[c].callersite
    IN  /\ s.sites[i].instr # ""
        /\ V[s.sites[i].instr].kind = "Call" /\ V[s.sites[i].instr].mode = "static"
        /\ V[s.sites[i].instr].s = s.cgnodes[c].fn
        /\ shouldUseContext(s.cgnodes[c].fn)
        /\ s.sites[i].caller \in Range(g)

\* Contour c belongs to a method call on a reflect.Type value, which is
\* generated like a static call of the method of *reflect.rtype.
FromReflectTypeCall(s, g, c) ==
    LET i == s.cgnodes[c].callersite
    IN  /\ s.sites[i].instr # ""
        /\ V[s.sites[i].instr].kind = "Call" /\ V[s.sites[i].instr].mode = "invoke"
        /\ V[V[s.sites[i].instr].x].typ = reflectType
        /\ rtypeMethod(V[s.sites[i].instr].s) = s.cgnodes[c].fn
        /\ s.sites[i].caller \in Range(g)

PerSiteContours(s) == {c \in Contours(s) : s.cgnodes[c].callersite # 0}

\* A chain of per-callsite contours ends after a wrapper: a per-callsite
\* contour made for a call in another per-callsite contour is the contour
\* of a function without calls, called from a synthetic wrapper.
ChainEnds(s, c) ==
    LET caller == s.sites[s.cgnodes[c].callersite].caller
    IN  s.cgnodes[caller].callersite # 0 =>
            /\ Fn[s.cgnodes[caller].fn].synthetic # ""
            /\ \A v \in Range(Flat(Fn[s.cgnodes[c].fn].blocks)) : ~isNonBuiltinCall(v)

\* The call instructions of the program.
CallInstrs == {v \in DOMAIN V : V[v].kind = "Call"}

\* A bound on the number of contours that follows from the three facts
\* above: a shared contour for each function, and for each of them a
\* per-callsite contour for each call and each call made from those.
ContourBound ==
    Cardinality(DOMAIN Fn) * (1 + Cardinality(CallInstrs) * (1 + Cardinality(CallInstrs)))

AllConstraints(s) == Range(s.constraints) \cup Range(s.complex)

\* load(dst, src, offset, n) emits nothing when dst is 0, is fatal without
\* effect on the constraints when only src is 0, and emits n loads otherwise.
LoadGuarded(s, dst, src, n) ==
    LET s1 == load(s, dst, src, 1, n)
    IN  IF dst = 0 THEN s1 = s
        ELSE IF src = 0 THEN s1.fatal # "" /\ s1.constraints = s.constraints
        ELSE /\ s1.fatal = ""
             /\ Len(s1.constraints) = Len(s.constraints) + n
             /\ \A i \in 1..n :
                    s1.constraints[Len(s.constraints) + i] =
                        [Con("load", dst + i - 1, src) EXCEPT !.offset = i]

\* store(dst, src, offset, n) emits nothing when src is 0, is fatal without
\* effect on the constraints when only dst is 0, and emits n stores otherwise.
StoreGuarded(s, dst, src, n) ==
    LET s1 == store(s, dst, src, 1, n)
    IN  IF src = 0 THEN s1 = s
        ELSE IF dst = 0 THEN s1.fatal # "" /\ s1.constraints = s.constraints
        ELSE /\ s1.fatal = ""
             /\ Len(s1.constraints) = Len(s.constraints) + n
             /\ \A i \in 1..n :
                    s1.constraints[Len(s.constraints) + i] =
                        [Con("store", dst, src + i - 1) EXCEPT !.offset = i]

\* C26: in every reachable state no constraint of any kind, emitted by the
\* generator or added by the solver, has node 0 as its source, destination
\* or trigger node, no copy edge touches node 0, and pts[0] is empty; load
\* with dst = 0 and store with src = 0 emit nothing, and a zero operand on
\* the other side alone is a fatal error.
C26_NoZeroNode ==
    /\ \A c \in AllConstraints(a) : c.dst # 0 /\ c.src # 0 /\ ptr(c) # 0
    /\ \A e \in a.copyTo : e[1] # 0 /\ e[2] # 0
    /\ a.pts # <<>> => a.pts[1] = {}
    /\ a.fatal = "" =>
           \A dst \in ProbeIds(a), src \in ProbeIds(a), n \in 1..2 :
               LoadGuarded(a, dst, src, n) /\ StoreGuarded(a, dst, src, n)

\* The solver is at work on load, store and offsetAddr constraints and on
\* copy edges, and the run is alive.
C26_Witness ==
    /\ a.pc = "solve" /\ a.fatal = "" /\ nextNode(a) > 2
    /\ \A k \in {"load", "store", "offsetAddr"} : \E c \in Range(a.complex) : c.k = k
    /\ a.copyTo # {}

(***************************************************************************)
(* C27: nodes derived as head + offset stay inside their object.           *)
(***************************************************************************)
\* The nodes obj+off, ..., one for each entry of tys, lie in the block of
\* the object that contains obj, and carry the types tys.
InBlock(s, obj, off, tys) ==
    \E h \in HeadsOf(s, obj) :
        \A i \in 1..Len(tys) :
            /\ obj + off + i - 1 < h + N(s, h).size
            /\ N(s, obj + off + i - 1).typ = tys[i]

\* The accesses *(ptr + offset) of an instruction, as genInstr generates
\* them: the pointer, the offset, the type that is read or written, the
\* direction, and the value at the other end of the copy ("" for the
\* temporary of copyElems).
Accesses(instr) ==
    LET i == V[instr]
    IN  CASE i.kind = "UnOp" /\ i.mode \in {"MUL", "ARROW"} ->
               {<<i.x, 0, i.typ, "load", instr>>}
          [] i.kind \in {"Store", "Send"} -> {<<i.x, 0, V[i.y].typ, "store", i.y>>}
          [] i.kind = "Lookup" /\ Kind(V[i.x].typ) = "map" ->
               {<<i.x, sizeof(Key(V[i.x].typ)), Elem(V[i.x].typ), "load", instr>>}
          [] i.kind = "MapUpdate" ->
               {<<i.x, 0, Key(V[i.x].typ), "store", i.y>>,
                <<i.x, sizeof(Key(V[i.x].typ)), Elem(V[i.x].typ), "store", i.args[1]>>}
          [] i.kind = "Call" /\ i.mode = "builtin" /\ i.s = "append" /\ Len(i.args) = 2 ->
               {<<i.args[2], 1, Elem(V[i.args[1]].typ), "load", "">>,
                <<instr, 1, Elem(V[i.args[1]].typ), "store", "">>}
          [] i.kind = "Call" /\ i.mode = "builtin" /\ i.s = "copy" ->
               {<<i.args[2], 1, Elem(V[i.args[1]].typ), "load", "">>,
                <<i.args[1], 1, Elem(V[i.args[1]].typ), "store", "">>}
          [] OTHER -> {}

\* The pre-applied copy of an access whose pointer has object obj.
PreApplied(s, acc, g, obj) ==
    acc[5] # "" =>
        \A id \in QueriedNodes(s, acc[5], g) :
            IF acc[4] = "load" THEN CopiesN(s, id, obj + acc[2], sizeof(acc[3]))
            ELSE CopiesN(s, obj + acc[2], id, sizeof(acc[3]))

\* The object objectNode found for value v in contour g, if any.
ObjectsOf(s, v, g) == {e[3] : e \in {x \in s.objlog : x[1] = v /\ x[2] = g}}

\* The object of a FieldAddr or IndexAddr lies in the object of its
\* operand, after its head, on a node of the type the address points to.
AddrInside(s, v, g, obj) ==
    V[v].kind \in {"FieldAddr", "IndexAddr"} =>
        /\ ObjectsOf(s, V[v].x, g) # {}
        /\ \A xobj \in ObjectsOf(s, V[v].x, g) :
               /\ xobj < obj
               /\ HeadsOf(s, xobj) # {} /\ HeadsOf(s, obj) = HeadsOf(s, xobj)
               /\ InBlock(s, obj, 0, flatten(mustDeref(V[v].typ)))

\* An Index instruction copies from the element nodes of its operand's
\* value block.
IndexInside(s, v, g) ==
    V[v].kind = "Index" =>
        /\ 1 + sizeof(V[v].typ) <= sizeof(V[V[v].x].typ)
        /\ SubSeq(flatten(V[V[v].x].typ), 2, 1 + sizeof(V[v].typ)) = flatten(V[v].typ)
        /\ \A id \in QueriedNodes(s, v, g), xid \in QueriedNodes(s, V[v].x, g) :
               CopiesN(s, id, xid + 1, sizeof(V[v].typ))

\* C27: every node that the generator derives as head + offset from a
\* known object (the object of a FieldAddr or IndexAddr, the source or
\* target of a pre-applied load or store, the element node at offset 1 of
\* IndexAddr, Index and copyElems) lies inside the block of that object.
C27_InsideBlock ==
    /\ \A e \in a.objlog : AddrInside(a, e[1], e[2], e[3])
    /\ \A g \in Generated(a) : \A instr \in Range(Flat(Fn[a.cgnodes[g].fn].blocks)) :
           /\ IndexInside(a, instr, g)
           /\ \A acc \in Accesses(instr) : \A obj \in ObjectsOf(a, acc[1], g) :
                  /\ InBlock(a, obj, acc[2], flatten(acc[3]))
                  /\ PreApplied(a, acc, g, obj)

\* The struct with an array field has been generated: the address of the
\* field is the array's identity node at offset 2 of the object, the
\* address of the element is the last node of the object, and the store
\* through it and the Index of the loaded array have been generated.
C27_Witness ==
    \E g \in Generated(a) :
        \E h \in ObjectsOf(a, "ty.s", g) :
            /\ N(a, h).size = 4
            /\ ObjectsOf(a, "ty.sf", g) = {h + 2}
            /\ ObjectsOf(a, "ty.si", g) = {h + 3}
            /\ QueriedNodes(a, "ty.ix", g) # {} /\ QueriedNodes(a, "ty.sd", g) # {}

(***************************************************************************)
(* go/types: the statement checker (stmt.go).                              *)
(*                                                                         *)
(* A statement is a record; its children are the sequences init, post and  *)
(* list (the labeled statement, the statements of a block or clause, the   *)
(* clauses of a switch or select, the body and else branch of an if, the   *)
(* body of a loop).  x is what check.expr finds for its expression, decl   *)
(* whether it declares variables (:=).  A statement is named by its path   *)
(* from the function body, which is also its position in error messages.   *)
(*                                                                         *)
(* check.stmt is recursive; the model runs it with an explicit stack of    *)
(* the calls still to make, check.tasks.  A deferred call is a task below  *)
(* the tasks of the function's body.                                       *)
(***************************************************************************)
Stmt(kind) ==
    [kind |-> kind, tok |-> "", label |-> FALSE, x |-> "", decl |-> FALSE,
     init |-> <<>>, post |-> <<>>, list |-> <<>>]

EmptyStmt           == Stmt("EmptyStmt")
GoStmt              == [Stmt("GoStmt") EXCEPT !.x = "statement"]
ExprStmt(x)         == [Stmt("ExprStmt") EXCEPT !.x = x]
Branch(tok)         == [Stmt("BranchStmt") EXCEPT !.tok = tok]
BranchTo(tok)       == [Stmt("BranchStmt") EXCEPT !.tok = tok, !.label = TRUE]
Labeled(st)         == [Stmt("LabeledStmt") EXCEPT !.list = <<st>>]
BlockOf(l)            == [Stmt("BlockStmt") EXCEPT !.list = l]
IfStmt(init, x, body, els) ==
    [Stmt("IfStmt") EXCEPT !.init = init, !.x = x, !.list = <<body>> \o els]
CaseClause(tok, body) == [Stmt("CaseClause") EXCEPT !.tok = tok, !.list = body]
CommClause(comm, body) ==
    [Stmt("CommClause") EXCEPT !.tok = IF comm = <<>> THEN "default" ELSE "case",
                               !.init = comm, !.list = body]
SwitchStmt(init, x, l) == [Stmt("SwitchStmt") EXCEPT !.init = init, !.x = x, !.list = l]
TypeSwitchStmt(init, x, decl, l) ==
    [Stmt("TypeSwitchStmt") EXCEPT !.init = init, !.x = x, !.decl = decl, !.list = l]
SelectStmt(l)       == [Stmt("SelectStmt") EXCEPT !.list = l]
ForStmt(init, x, post, body) ==
    [Stmt("ForStmt") EXCEPT !.init = init, !.x = x, !.post = post, !.list = <<body>>]
RangeStmt(x, decl, body) ==
    [Stmt("RangeStmt") EXCEPT !.x = x, !.decl = decl, !.list = <<body>>]

Front(p) == SubSeq(p, 1, Len(p) - 1)
Last(p)  == p[Len(p)]

\* The child that a step of a path names.
Child(st, step) ==
    CASE step[1] = "init" -> st.init[step[2]]
      [] step[1] = "post" -> st.post[step[2]]
      [] OTHER            -> st.list[step[2]]

RECURSIVE At(_, _)
\* The statement at path p of statement st.
At(st, p) == IF p = <<>> THEN st ELSE At(Child(st, Head(p)), Tail(p))

\* The steps to the children of a statement.
Steps(st) ==
    {<<"init", i>> : i \in 1..Len(st.init)} \cup {<<"post", i>> : i \in 1..Len(st.post)}
        \cup {<<"list", i>> : i \in 1..Len(st.list)}

RECURSIVE Paths(_)
\* The paths of all statements of st.
Paths(st) ==
    {<<>>} \cup UNION {{<<step>> \o q : q \in Paths(Child(st, step))} : step \in Steps(st)}

\* The stmtContext bits.
fallthroughOk == "fallthroughOk"
inBreakable   == "inBreakable"
inContinuable == "inContinuable"

Task(op, ctxt, path, scope) == [op |-> op, ctxt |-> ctxt, path |-> path, scope |-> scope]
StmtTask(ctxt, path) == Task("stmt", ctxt, path, 0)

\* The checker before it checks function body b: topScope is the scope of
\* the function, scope 1, whose parent is scope 0.
NewChecker(b) ==
    [body     |-> b,
     tasks    |-> <<StmtTask({}, <<>>)>>,
     topScope |-> 1,
     scopes   |-> <<0>>,       \* scopes[k] is the parent of scope k
     recorded |-> {},          \* recordScope: (statement, scope)
     errors   |-> {},          \* (position, message)
     hasLabel |-> FALSE,
     failed   |-> ""]          \* the assertion that failed, if one did

errorf(c, path, msg) == [c EXCEPT !.errors = @ \cup {<<path, msg>>}]
invalidAST(c, path, msg) == errorf(c, path, "invalid AST: " \o msg)

\* The calls check.stmt makes next, in order, before what was pending.
push(c, tasks) == [c EXCEPT !.tasks = tasks \o @]

Parent(c, scope) == IF scope = 0 THEN 0 ELSE c.scopes[scope]

openScope(c, path) ==
    LET scope == Len(c.scopes) + 1
    IN  [c EXCEPT !.scopes = Append(@, c.topScope),
                  !.recorded = @ \cup {<<path, scope>>},
                  !.topScope = scope]

\* A closeScope that leaves the scope open.
closeScopeNot(c) == c

closeScope(c) == [c EXCEPT !.topScope = Parent(c, c.topScope)]

\* initStmt: the statement, if there is one, is checked in context 0.
initStmt(path, f, st) == [i \in 1..Len(st[f]) |-> StmtTask({}, Append(path, <<f, i>>))]

\* A stmtList that allows fallthrough at every statement of the list.
stmtListAnywhere(c, ctxt, path) ==
    push(c, [i \in 1..Len(At(c.body, path).list) |->
                StmtTask(ctxt, Append(path, <<"list", i>>))])

stmtList(c, ctxt, path) ==
    LET list  == At(c.body, path).list
        ok    == fallthroughOk \in ctxt
        inner == ctxt \ {fallthroughOk}
    IN  push(c, [i \in 1..Len(list) |->
                    StmtTask(IF ok /\ i = Len(list) THEN inner \cup {fallthroughOk} ELSE inner,
                             Append(path, <<"list", i>>))])

RECURSIVE defaults(_, _, _, _, _)
\* the loop of multipleDefaults from clause i on; first is the index of
\* the first default clause seen, 0 if none
defaults(c, path, list, i, first) ==
    IF i > Len(list) THEN c
    ELSE IF list[i].kind \notin {"CaseClause", "CommClause"}
    THEN defaults(invalidAST(c, Append(path, <<"list", i>>), "case/communication clause expected"),
                  path, list, i + 1, first)
    ELSE IF list[i].tok # "default" THEN defaults(c, path, list, i + 1, first)
    ELSE IF first # 0
    THEN defaults(errorf(c, Append(path, <<"list", i>>), "multiple defaults"),
                  path, list, i + 1, first)
    ELSE defaults(c, path, list, i + 1, i)

multipleDefaults(c, path) == defaults(c, path, At(c.body, path).list, 1, 0)

\* The tasks of the clauses of a switch or select: each clause that is a
\* clause of kind k opens its scope, checks its communication (select),
\* checks its body and closes its scope.  last: the context of the last
\* clause; other: of every other clause.
clauses(c, path, k, other, last) ==
    LET list == At(c.body, path).list
        one(i) ==
            IF list[i].kind # k THEN <<>>
            ELSE LET cp == Append(path, <<"list", i>>)
                     in == IF i < Len(list) THEN other ELSE last
                 IN  <<Task("openScope", {}, cp, 0)>>
                         \o [j \in 1..Len(list[i].init) |->
                                StmtTask(in, Append(cp, <<"init", j>>))]
                         \o <<Task("stmtList", in, cp, 0), Task("closeScope", {}, cp, 0)>>
        all[i \in 0..Len(list)] == IF i = 0 THEN <<>> ELSE all[i - 1] \o one(i)
    IN  all[Len(list)]

\* What a statement with a header does once its init statement is checked.
header(c, t) ==
    LET st    == At(c.body, t.path)
        inner == t.ctxt
        body  == StmtTask(inner, Append(t.path, <<"list", 1>>))
    IN  CASE st.kind = "IfStmt" ->
               push(IF st.x = "nonbool"
                    THEN errorf(c, t.path, "non-boolean condition in if statement") ELSE c,
                    <<body>> \o [i \in 1..(Len(st.list) - 1) |->
                                    StmtTask(inner, Append(t.path, <<"list", i + 1>>))]
                        \o <<Task("closeScope", {}, t.path, 0)>>)
          [] st.kind = "SwitchStmt" ->
               push(multipleDefaults(c, t.path),
                    clauses(c, t.path, "CaseClause", inner \cup {fallthroughOk}, inner)
                        \o <<Task("closeScope", {}, t.path, 0)>>)
          [] st.kind = "TypeSwitchStmt" ->
               CASE st.x = "badguard" ->
                      invalidAST(c, t.path, "incorrect form of type switch guard")
                 [] st.x = "invalid" -> c
                 [] st.x = "notiface" -> errorf(c, t.path, "is not an interface")
                 [] OTHER ->
                      push(multipleDefaults(c, t.path),
                           clauses(c, t.path, "CaseClause", inner, inner))
          [] st.kind = "ForStmt" ->
               push(IF st.x = "nonbool"
                    THEN errorf(c, t.path, "non-boolean condition in for statement") ELSE c,
                    initStmt(t.path, "post", st)
                        \o <<body, Task("closeScope", {}, t.path, 0)>>)
          [] OTHER -> c

\* check.stmt(ctxt, s) for the statement at t.path, after its deferred
\* assertion has been set up.
stmtCase(c, t) ==
    LET st    == At(c.body, t.path)
        ctxt  == t.ctxt
        inner == ctxt \ {fallthroughOk}
        body  == StmtTask(inner, Append(t.path, <<"list", 1>>))
    IN  CASE st.kind \in {"BadStmt", "EmptyStmt"} -> c
          [] st.kind = "ExprStmt" ->
               IF st.x = "statement" THEN c ELSE errorf(c, t.path, "is not used")
          [] st.kind \in {"GoStmt", "DeferStmt"} ->
               IF st.x = "statement" THEN c ELSE errorf(c, t.path, "discards result of")
          [] st.kind = "LabeledStmt" ->
               push([c EXCEPT !.hasLabel = TRUE],
                    <<StmtTask(ctxt, Append(t.path, <<"list", 1>>))>>)
          [] st.kind = "BranchStmt" ->
               IF st.label THEN [c EXCEPT !.hasLabel = TRUE]
               ELSE CASE st.tok = "break" ->
                           IF inBreakable \notin ctxt
                           THEN errorf(c, t.path, "break not in for, switch, or select statement")
                           ELSE c
                      [] st.tok = "continue" ->
                           IF inContinuable \notin ctxt
                           THEN errorf(c, t.path, "continue not in for statement")
                           ELSE c
                      [] st.tok = "fallthrough" ->
                           IF fallthroughOk \notin ctxt
                           THEN errorf(c, t.path, "fallthrough statement out of place")
                           ELSE c
                      [] OTHER -> invalidAST(c, t.path, "branch statement")
          [] st.kind = "BlockStmt" ->
               push(openScope(c, t.path),
                    <<Task("stmtList", inner, t.path, 0), Task("closeScope", {}, t.path, 0)>>)
          [] st.kind = "IfStmt" ->
               push(openScope(c, t.path),
                    initStmt(t.path, "init", st) \o <<Task("header", inner, t.path, 0)>>)
          [] st.kind = "SwitchStmt" ->
               push(openScope(c, t.path),
                    initStmt(t.path, "init", st)
                        \o <<Task("header", inner \cup {inBreakable}, t.path, 0)>>)
          [] st.kind = "TypeSwitchStmt" ->
               push(openScope(c, t.path),
                    initStmt(t.path, "init", st)
                        \o <<Task("header", inner \cup {inBreakable}, t.path, 0),
                             Task("closeScope", {}, t.path, 0)>>)
          [] st.kind = "SelectStmt" ->
               push(multipleDefaults(c, t.path),
                    clauses(c, t.path, "CommClause",
                            inner \cup {inBreakable}, inner \cup {inBreakable}))
          [] st.kind = "ForStmt" ->
               push(openScope(c, t.path),
                    initStmt(t.path, "init", st)
                        \o <<Task("header", inner \cup {inBreakable, inContinuable}, t.path, 0)>>)
          [] st.kind = "RangeStmt" ->
               LET c1   == openScope(c, t.path)
                   loop == StmtTask(inner \cup {inBreakable, inContinuable},
                                    Append(t.path, <<"list", 1>>))
                   done == <<Task("closeScope", {}, t.path, 0)>>
               IN  CASE st.x = "invalid" ->
                          push(c1, (IF st.decl THEN <<>> ELSE <<loop>>) \o done)
                     [] st.x = "nokey" ->
                          push(errorf(c1, t.path, "cannot range over"),
                               (IF st.decl THEN <<>> ELSE <<loop>>) \o done)
                     [] OTHER -> push(c1, <<loop>> \o done)
          [] OTHER -> errorf(c, t.path, "invalid statement")

\* check.stmt: the assertion on the top scope is deferred first, so it
\* runs last.
stmt(c, t) == stmtCase(push(c, <<Task("assert", {}, t.path, c.topScope)>>), t)

\* The deferred function of check.stmt.
assertScope(c, t) ==
    IF t.scope = c.topScope THEN c
    ELSE [c EXCEPT !.failed = "assertion failed", !.tasks = <<>>]

(***************************************************************************)
(* The function bodies that are checked.                                   *)
(***************************************************************************)
Fallthrough == Branch("fallthrough")

\* Statement lists that end, or do not end, in a fallthrough.
Tails ==
    { <<>>,
      <<Fallthrough>>,
      <<Fallthrough, Branch("break")>>,
      <<ExprStmt("statement"), Fallthrough>>,
      <<BranchTo("goto"), Labeled(Fallthrough)>>,
      <<Labeled(Labeled(Labeled(Fallthrough)))>>,
      <<BlockOf(<<Fallthrough>>)>>,
      <<IfStmt(<<>>, "bool", BlockOf(<<Fallthrough>>), <<>>)>>,
      <<Labeled(BlockOf(<<Fallthrough>>))>> }

ShortTails == { <<>>, <<Fallthrough>>, <<EmptyStmt, Labeled(Fallthrough)>> }

Bodies ==
    {BlockOf(<<SwitchStmt(<<>>, "int", <<CaseClause("case", t1), CaseClause(k, t2)>>)>>) :
        t1 \in Tails, t2 \in Tails, k \in {"case", "default"}}
    \cup {BlockOf(<<SwitchStmt(<<Fallthrough>>, x,
                    <<CaseClause("default", t1), CaseClause("case", <<>>),
                      CaseClause("default", t2)>>)>>) :
             t1 \in ShortTails, t2 \in ShortTails, x \in {"int", "invalid"}}
    \cup {BlockOf(<<SwitchStmt(<<>>, "int",
                    <<CaseClause("case", <<SwitchStmt(<<>>, "int",
                          <<CaseClause("case", t1), CaseClause("case", t2)>>)>>),
                      CaseClause("case", <<Fallthrough>>)>>)>>) :
             t1 \in ShortTails, t2 \in ShortTails}
    \cup {BlockOf(<<TypeSwitchStmt(init, x, decl,
                    <<CaseClause("case", t1), CaseClause("default", <<>>)>>)>>) :
             init \in {<<>>, <<ExprStmt("statement")>>},
             x \in {"ok", "badguard", "invalid", "notiface"}, decl \in BOOLEAN,
             t1 \in ShortTails}
    \cup {BlockOf(<<RangeStmt(x, decl, BlockOf(t1 \o <<Branch("continue")>>))>> \o t1) :
             x \in {"ok", "invalid", "nokey"}, decl \in BOOLEAN, t1 \in ShortTails}
    \cup {BlockOf(<<ForStmt(init, x, init, BlockOf(t1 \o <<Branch("break")>>)),
                  Branch(tok)>>) :
             init \in {<<>>, <<Fallthrough>>}, x \in {"bool", "nonbool"},
             t1 \in ShortTails, tok \in {"break", "continue", "goto"}}
    \cup {BlockOf(<<SelectStmt(<<CommClause(comm, t1), CommClause(<<>>, t2)>>)>>) :
             comm \in {<<GoStmt>>, <<ExprStmt("statement")>>},
             t1 \in ShortTails, t2 \in ShortTails}
    \cup {BlockOf(<<IfStmt(init, x, BlockOf(t1), els)>> \o t2) :
             init \in {<<>>, <<ExprStmt("unused")>>}, x \in {"bool", "nonbool"},
             els \in {<<>>, <<BlockOf(<<Fallthrough>>)>>},
             t1 \in ShortTails, t2 \in ShortTails}

(***************************************************************************)
(* The specification of the statement checker.                             *)
(***************************************************************************)
StmtInit ==
    /\ \E b \in Bodies : check = NewChecker(b)
    /\ prog = Idle /\ a = Idle /\ genned = Idle /\ lift = Idle

\* The task on top of the stack is a call of check.stmt for a statement
\* of one of the kinds.
Calls(kinds) ==
    /\ check.tasks # <<>>
    /\ Head(check.tasks).op = "stmt"
    /\ At(check.body, Head(check.tasks).path).kind \in kinds

\* The checker after the call on top of the stack.
Called == stmt([check EXCEPT !.tasks = Tail(@)], Head(check.tasks))

SimpleStmt ==
    /\ Calls({"BadStmt", "EmptyStmt", "ExprStmt", "GoStmt"})
    /\ check' = Called
    /\ UNCHANGED <<prog, a, genned, lift>>

LabeledStmt ==
    /\ Calls({"LabeledStmt"})
    /\ check' = Called
    /\ UNCHANGED <<prog, a, genned, lift>>

BranchStmt ==
    /\ Calls({"BranchStmt"})
    /\ check' = Called
    /\ UNCHANGED <<prog, a, genned, lift>>

BlockStmt ==
    /\ Calls({"BlockStmt"})
    /\ check' = Called
    /\ UNCHANGED <<prog, a, genned, lift>>

IfForStmt ==
    /\ Calls({"IfStmt", "ForStmt"})
    /\ check' = Called
    /\ UNCHANGED <<prog, a, genned, lift>>

SwitchStmts ==
    /\ Calls({"SwitchStmt", "TypeSwitchStmt", "SelectStmt"})
    /\ check' = Called
    /\ UNCHANGED <<prog, a, genned, lift>>

RangeStmts ==
    /\ Calls({"RangeStmt"})
    /\ check' = Called
    /\ UNCHANGED <<prog, a, genned, lift>>

\* The pending step of check.stmt or of one of its loops.
Pending(op) == check.tasks # <<>> /\ Head(check.tasks).op = op

Header ==
    /\ Pending("header")
    /\ check' = header([check EXCEPT !.tasks = Tail(@)], Head(check.tasks))
    /\ UNCHANGED <<prog, a, genned, lift>>

StmtList ==
    /\ Pending("stmtList")
    /\ check' = stmtList([check EXCEPT !.tasks = Tail(@)],
                         Head(check.tasks).ctxt, Head(check.tasks).path)
    /\ UNCHANGED <<prog, a, genned, lift>>

OpenScope ==
    /\ Pending("openScope")
    /\ check' = openScope([check EXCEPT !.tasks = Tail(@)], Head(check.tasks).path)
    /\ UNCHANGED <<prog, a, genned, lift>>

CloseScope ==
    /\ Pending("closeScope")
    /\ check' = closeScope([check EXCEPT !.tasks = Tail(@)])
    /\ UNCHANGED <<prog, a, genned, lift>>

AssertScope ==
    /\ Pending("assert")
    /\ check' = assertScope([check EXCEPT !.tasks = Tail(@)], Head(check.tasks))
    /\ UNCHANGED <<prog, a, genned, lift>>

StmtNext ==
    \/ SimpleStmt \/ LabeledStmt \/ BranchStmt \/ BlockStmt \/ IfForStmt
    \/ SwitchStmts \/ RangeStmts
    \/ Header \/ StmtList \/ OpenScope \/ CloseScope \/ AssertScope

StmtSpec == StmtInit /\ [][StmtNext]_vars

(***************************************************************************)
(* C28: where a fallthrough statement is accepted.                         *)
(***************************************************************************)
\* The fallthrough statements of function body b.
FallthroughPaths(b) ==
    {p \in Paths(b) : At(b, p).kind = "BranchStmt" /\ At(b, p).tok = "fallthrough"
                          /\ ~At(b, p).label}

RECURSIVE Unlabel(_, _)
\* The outermost of the labeled statements placed directly on statement p
\* (p itself if it has no label).
Unlabel(b, p) ==
    IF p # <<>> /\ At(b, Front(p)).kind = "LabeledStmt" THEN Unlabel(b, Front(p)) ELSE p

\* Statement p, labels included, is the last statement of a case clause of
\* an expression switch, and the clause is not the last one of the switch.
Placed(b, p) ==
    LET q == Unlabel(b, p)
    IN  /\ Len(q) >= 2
        /\ At(b, Front(q)).kind = "CaseClause"
        /\ Last(q) = <<"list", Len(At(b, Front(q)).list)>>
        /\ At(b, Front(Front(q))).kind = "SwitchStmt"
        /\ Last(Front(q))[1] = "list"
        /\ Last(Front(q))[2] < Len(At(b, Front(Front(q))).list)

\* Statement p lies in the clauses of a type switch or in the body of a
\* range statement that check.stmt leaves early: the guard or the range
\* expression is in error (and the range statement declares its variables).
Skipped(b, p) ==
    \E n \in 0..(Len(p) - 1) :
        LET st == At(b, SubSeq(p, 1, n))
        IN  /\ p[n + 1][1] = "list"
            /\ \/ st.kind = "TypeSwitchStmt" /\ st.x # "ok"
               \/ st.kind = "RangeStmt" /\ st.x # "ok" /\ st.decl

OutOfPlace(p) == <<p, "fallthrough statement out of place">> \in check.errors

\* check.stmt has returned for the function body.
Checked == check.tasks = <<>> /\ check.failed = ""

\* C28 as stated: a fallthrough statement is accepted without error iff it
\* is the last statement of a case clause of an expression switch that is
\* not the last clause; in every other position the error is reported.
C28_FallthroughAsStated ==
    Checked =>
        \A p \in FallthroughPaths(check.body) : ~OutOfPlace(p) <=> Placed(check.body, p)

\* C28: the error "fallthrough statement out of place" is only ever
\* reported for a fallthrough statement that is not the last statement
\* (labels included) of a non-final case clause of an expression switch;
\* and once the body is checked, it has been reported for every such
\* statement that check.stmt visits, that is, every one outside the clauses
\* of a type switch and the body of a range statement left early.
C28_Fallthrough ==
    /\ \A e \in check.errors :
          e[2] = "fallthrough statement out of place" =>
              e[1] \in FallthroughPaths(check.body) /\ ~Placed(check.body, e[1])
    /\ Checked =>
          \A p \in FallthroughPaths(check.body) :
              IF Skipped(check.body, p) THEN ~OutOfPlace(p)
              ELSE ~OutOfPlace(p) <=> Placed(check.body, p)

\* A checked body in which a labeled fallthrough at the end of a
\* non-final clause is accepted and a fallthrough in the final clause is
\* reported.
C28_Witness ==
    /\ Checked
    /\ \E p, q \in FallthroughPaths(check.body) :
          /\ Placed(check.body, p) /\ Unlabel(check.body, p) # p /\ ~OutOfPlace(p)
          /\ ~Placed(check.body, q) /\ At(check.body, Front(q)).kind = "CaseClause"
          /\ OutOfPlace(q)

(***************************************************************************)
(* C29: check.stmt leaves the top scope as it found it.                    *)
(***************************************************************************)
RECURSIVE Depth(_, _)
\* The number of scopes from scope up to the scope of the function.
Depth(c, scope) == IF scope <= 1 THEN 0 ELSE 1 + Depth(c, c.scopes[scope])

\* What a pending task will do to the depth of the top scope: a closeScope
\* (also the one a pending header of an if, switch or for statement ends
\* with) closes one scope, an openScope opens one.
Owed(c, t) ==
    CASE t.op = "closeScope" -> 1
      [] t.op = "header" /\ At(c.body, t.path).kind \in {"IfStmt", "SwitchStmt", "ForStmt"} -> 1
      [] t.op = "openScope" -> 0 - 1
      [] OTHER -> 0

RECURSIVE OwedBy(_, _)
OwedBy(c, tasks) == IF tasks = <<>> THEN 0 ELSE Owed(c, Head(tasks)) + OwedBy(c, Tail(tasks))

\* The scope that is the top scope when the first n pending tasks are done.
RECURSIVE Up(_, _, _)
Up(c, scope, n) == IF n <= 0 THEN scope ELSE Up(c, Parent(c, scope), n - 1)

\* C29: check.stmt returns with check.topScope equal to its value on
\* entry: the deferred assertion never fails; every scope that is open is
\* closed by exactly one pending closeScope; each pending assertion expects
\* the scope that the closeScopes before it lead back to; and when the
\* body is checked the top scope is the scope of the function again.
C29_TopScopeRestored ==
    /\ check.failed = ""
    /\ Depth(check, check.topScope) = OwedBy(check, check.tasks)
    /\ \A i \in 1..Len(check.tasks) :
          check.tasks[i].op = "assert" =>
              check.tasks[i].scope
                  = Up(check, check.topScope, OwedBy(check, SubSeq(check.tasks, 1, i - 1)))
    /\ \A r1, r2 \in check.recorded : r1[2] = r2[2] => r1 = r2
    /\ Checked => check.topScope = 1

\* A body with a type switch or range statement that check.stmt left
\* early has been checked: its scope was opened and is closed again.
C29_Witness ==
    /\ Checked
    /\ check.topScope = 1
    /\ \E r \in check.recorded :
          /\ At(check.body, r[1]).kind \in {"TypeSwitchStmt", "RangeStmt"}
          /\ At(check.body, r[1]).x # "ok"
          /\ r[2] > 1

(***************************************************************************)
(* ssa: lifting of an Alloc cell into registers (lift.go).                 *)
(*                                                                         *)
(* A function is its control-flow graph: block b has successors succs[b],  *)
(* block 0 is the entry block and every block is reachable from it (lift   *)
(* requires that blockopt has run).  buildDomTree has run: idom[b] is the  *)
(* immediate dominator of block b, -1 for the entry block.  A blockSet is  *)
(* the set of the indices of its 1 bits.                                   *)
(***************************************************************************)
Blocks == 0..3

\* The lists of successors a block may have: none (return), one (jump),
\* two (if; both may be the same block).  The entry block is no successor.
SuccChoices ==
    {<<>>} \cup {<<v>> : v \in Blocks \ {0}}
           \cup {<<p[1], p[2]>> : p \in {q \in (Blocks \ {0}) \X (Blocks \ {0}) : q[1] <= q[2]}}

RECURSIVE ClosureOf(_, _, _)
\* The blocks reached from the blocks seen on paths that avoid block avoid.
ClosureOf(g, seen, avoid) ==
    LET next == seen \cup {v \in Blocks \ {avoid} : \E u \in seen : v \in Range(g[u])}
    IN  IF next = seen THEN seen ELSE ClosureOf(g, next, avoid)

\* The blocks that are reachable from the entry block without passing d.
ReachableAvoiding(g, d) == IF d = 0 THEN {} ELSE ClosureOf(g, {0}, d)

\* d dominates b: every path from the entry block to b passes d.
Dominates(g, d, b) == d = b \/ b \notin ReachableAvoiding(g, d)

StrictDoms(g, b) == {d \in Blocks \ {b} : Dominates(g, d, b)}

\* The immediate dominator: the strict dominator that all others dominate.
IdomOf(g, b) ==
    IF b = 0 THEN 0 - 1
    ELSE CHOOSE d \in StrictDoms(g, b) : \A e \in StrictDoms(g, b) : Dominates(g, e, d)

Cfgs ==
    {g \in [Blocks -> SuccChoices] :
        /\ g[Max(Blocks)] = <<>>
        /\ ClosureOf(g, {0}, 0 - 1) = Blocks}

\* An Alloc: its block, whether its type is an array or struct, and its
\* referrers, each an instruction kind and the block of the instruction.
\* "store" stores into the cell, "load" loads from it, "storeval" stores
\* the address of the cell, "unop" and "other" are other uses.
AllocOf(block, aggregate, refs) == [block |-> block, aggregate |-> aggregate, refs |-> refs]
Ref(kind, block) == [kind |-> kind, block |-> block]

\* The referrers of the allocs that are lifted: a load, and stores in up
\* to two blocks (the second block twice).
LiftableRefs ==
    {<<Ref("load", Max(Blocks))>>}
    \cup {<<Ref("store", b), Ref("load", Max(Blocks))>> : b \in Blocks}
    \cup {<<Ref("store", b1), Ref("load", b1), Ref("store", b2), Ref("store", b2)>> :
             b1 \in Blocks, b2 \in Blocks}

\* Referrers of allocs that are not lifted.
OtherRefs ==
    {<<Ref("store", 1), Ref(k, b), Ref("store", 2)>> :
        k \in {"storeval", "unop", "other"}, b \in {0, 2}}

NewLift(g, alloc) ==
    [succs      |-> g,
     idom       |-> [b \in Blocks |-> IdomOf(g, b)],
     alloc      |-> alloc,
     df         |-> [b \in Blocks |-> <<>>],
     defblocks  |-> {},
     hasAlready |-> {},
     work       |-> {},
     W          |-> {},
     u          |-> 0 - 1,
     todo       |-> <<>>,     \* the rest of df[u] in the loop over it
     newPhis    |-> <<>>,     \* the blocks of the phi-nodes created, in order
     entered    |-> <<>>,     \* history: the blocks put into W, in order
     pc         |-> "start"]

\* The children of u in the dominator tree, by index.
RECURSIVE ChildrenFrom(_, _, _)
ChildrenFrom(l, u, b) ==
    IF b > Max(Blocks) THEN <<>>
    ELSE (IF l.idom[b] = u THEN <<b>> ELSE <<>>) \o ChildrenFrom(l, u, b + 1)
Children(l, u) == ChildrenFrom(l, u, 0)

df_add(l, u, v) == [l EXCEPT !.df[u] = Append(@, v)]

RECURSIVE addFrontier(_, _, _)
\* the loops of build over a list of blocks vs: v is added to df[u] unless
\* u is its immediate dominator
addFrontier(l, u, vs) ==
    IF vs = <<>> THEN l
    ELSE addFrontier(IF l.idom[Head(vs)] # u THEN df_add(l, u, Head(vs)) ELSE l, u, Tail(vs))

RECURSIVE build(_, _)
RECURSIVE buildAll(_, _)
RECURSIVE addUp(_, _, _)
\* the loop of build over the children of u, building each subtree
buildAll(l, ws) == IF ws = <<>> THEN l ELSE buildAll(build(l, Head(ws)), Tail(ws))

\* the last loop of build: the frontier of each child w is passed up
addUp(l, u, ws) ==
    IF ws = <<>> THEN l ELSE addUp(addFrontier(l, u, l.df[Head(ws)]), u, Tail(ws))

build(l, u) ==
    LET l1 == buildAll(l, Children(l, u))
        l2 == addFrontier(l1, u, l.succs[u])
    IN  addUp(l2, u, Children(l, u))

buildDomFrontier(l) == build([l EXCEPT !.df = [b \in Blocks |-> <<>>]], 0)

\* blockSet.add: the set with b, and whether the set changed.
blockSet_add(set, b) == [set |-> set \cup {b}, changed |-> b \notin set]

\* blockSet.take: the lowest element, which is removed, or -1.
blockSet_take(set) ==
    IF set = {} THEN [set |-> set, i |-> 0 - 1]
    ELSE [set |-> set \ {Min(set)}, i |-> Min(set)]

RECURSIVE referrers(_, _)
\* liftAlloc's loop over the referrers: defblocks, or "no" when an
\* instruction other than a load from or a store into the cell uses it.
referrers(refs, defblocks) ==
    IF refs = <<>> THEN [ok |-> TRUE, defblocks |-> defblocks]
    ELSE IF Head(refs).kind = "store"
         THEN referrers(Tail(refs), blockSet_add(defblocks, Head(refs).block).set)
    ELSE IF Head(refs).kind = "load" THEN referrers(Tail(refs), defblocks)
    ELSE [ok |-> FALSE, defblocks |-> defblocks]

\* The elements of a set of blocks, by index.
RECURSIVE InOrder(_)
InOrder(set) == IF set = {} THEN <<>> ELSE <<Min(set)>> \o InOrder(set \ {Min(set)})

\* liftAlloc up to its phi-insertion loop.
liftAlloc(l) ==
    LET r   == referrers(l.alloc.refs, {})
        def == blockSet_add(r.defblocks, l.alloc.block).set
    IN  IF l.alloc.aggregate \/ ~r.ok THEN [l EXCEPT !.pc = "false"]
        ELSE [l EXCEPT !.defblocks = def, !.work = def, !.W = def,
                       !.hasAlready = {}, !.entered = InOrder(def), !.pc = "loop"]

\* A visit that creates a phi-node for every entry of the frontier.
visitAll(l, v) ==
    LET w == blockSet_add(l.work, v)
    IN  [l EXCEPT !.hasAlready = @ \cup {v},
                  !.newPhis = Append(@, v),
                  !.work = w.set,
                  !.W = IF w.changed THEN blockSet_add(@, v).set ELSE @,
                  !.entered = IF w.changed THEN Append(@, v) ELSE @]

\* The body of the loop over df[u]: block v of the frontier of u.
visit(l, v) ==
    LET h == blockSet_add(l.hasAlready, v)
        w == blockSet_add(l.work, v)
    IN  IF ~h.changed THEN l
        ELSE [l EXCEPT !.hasAlready = h.set,
                       !.newPhis = Append(@, v),
                       !.work = w.set,
                       !.W = IF w.changed THEN blockSet_add(@, v).set ELSE @,
                       !.entered = IF w.changed THEN Append(@, v) ELSE @]

(***************************************************************************)
(* The specification of lifting one alloc.                                 *)
(***************************************************************************)
LiftInit ==
    /\ \E g \in Cfgs :
          \/ \E b \in {0, 1}, refs \in LiftableRefs : lift = NewLift(g, AllocOf(b, FALSE, refs))
          \/ /\ g = [b \in Blocks |-> IF b < Max(Blocks) THEN <<b + 1>> ELSE <<>>]
             /\ \/ \E refs \in OtherRefs : lift = NewLift(g, AllocOf(0, FALSE, refs))
                \/ \E refs \in LiftableRefs : lift = NewLift(g, AllocOf(0, TRUE, refs))
    /\ prog = Idle /\ a = Idle /\ genned = Idle /\ check = Idle

\* lift: the dominance frontier is built
BuildDomFrontier ==
    /\ lift.pc = "start"
    /\ lift' = [buildDomFrontier(lift) EXCEPT !.pc = "alloc"]
    /\ UNCHANGED <<prog, a, genned, check>>

\* liftAlloc, up to the phi-insertion loop
LiftAlloc ==
    /\ lift.pc = "alloc"
    /\ lift' = liftAlloc(lift)
    /\ UNCHANGED <<prog, a, genned, check>>

\* the phi-insertion loop takes the next block from W
Take ==
    /\ lift.pc = "loop" /\ lift.todo = <<>>
    /\ blockSet_take(lift.W).i # 0 - 1
    /\ lift' = [lift EXCEPT !.W = blockSet_take(lift.W).set,
                            !.u = blockSet_take(lift.W).i,
                            !.todo = lift.df[blockSet_take(lift.W).i]]
    /\ UNCHANGED <<prog, a, genned, check>>

\* the loop over the dominance frontier of the block taken
Visit ==
    /\ lift.pc = "loop" /\ lift.todo # <<>>
    /\ lift' = visit([lift EXCEPT !.todo = Tail(@)], Head(lift.todo))
    /\ UNCHANGED <<prog, a, genned, check>>

\* W is empty: liftAlloc returns true
LiftDone ==
    /\ lift.pc = "loop" /\ lift.todo = <<>>
    /\ blockSet_take(lift.W).i = 0 - 1
    /\ lift' = [lift EXCEPT !.pc = "true"]
    /\ UNCHANGED <<prog, a, genned, check>>

LiftNext == BuildDomFrontier \/ LiftAlloc \/ Take \/ Visit \/ LiftDone

LiftSpec == LiftInit /\ [][LiftNext]_vars

(***************************************************************************)
(* C30: phi-nodes are placed at the iterated dominance frontier.           *)
(***************************************************************************)
Preds(g, v) == {u \in Blocks : v \in Range(g[u])}

\* The dominance frontier of block b, from its definition: the blocks v
\* with a predecessor that b dominates, that b does not strictly dominate.
Frontier(g, b) ==
    {v \in Blocks : /\ \E q \in Preds(g, v) : Dominates(g, b, q)
                    /\ ~(b # v /\ Dominates(g, b, v))}

RECURSIVE IteratedFrom(_, _, _)
\* The iterated dominance frontier of the blocks in defs: the least set X
\* that contains the frontier of every block of defs and of X.
IteratedFrom(g, defs, X) ==
    LET next == UNION {Frontier(g, b) : b \in defs \cup X}
    IN  IF next = X THEN X ELSE IteratedFrom(g, defs, next)
IteratedFrontier(g, defs) == IteratedFrom(g, defs, {})

\* The defining blocks of the alloc: the blocks with a store into it and
\* its own block.
DefBlocks(al) == {r.block : r \in {x \in Range(al.refs) : x.kind = "store"}} \cup {al.block}

NoDuplicates(seq) == \A i, j \in DOMAIN seq : seq[i] = seq[j] => i = j

\* The blocks that have left W.
Taken(l) == Range(l.entered) \ l.W

\* C30: for an alloc that liftAlloc accepts, the phi-insertion loop ends;
\* it has then created exactly one phi-node in each block of the iterated
\* dominance frontier of the defining blocks of the alloc and none in any
\* other block; and each block enters the worklist W at most once.  The
\* loop ends because each iteration takes a block out of W for good: the
\* blocks taken grow with every take, a list of frontier blocks gets
\* shorter with every visit, and the loop returns when W is empty.
C30_PhiAtIteratedFrontier ==
    /\ [](lift.pc \in {"loop", "true"} =>
            /\ NoDuplicates(lift.entered)
            /\ NoDuplicates(lift.newPhis)
            /\ lift.W \subseteq Range(lift.entered)
            /\ lift.defblocks = DefBlocks(lift.alloc)
            /\ Range(lift.newPhis) \subseteq IteratedFrontier(lift.succs, lift.defblocks)
            /\ \A b \in Blocks : Range(lift.df[b]) = Frontier(lift.succs, b))
    /\ [](lift.pc = "true" =>
            Range(lift.newPhis) = IteratedFrontier(lift.succs, DefBlocks(lift.alloc)))
    /\ [][lift.pc = "loop" =>
            \/ /\ lift'.pc = "loop" /\ lift.todo = <<>>
               /\ Taken(lift) \subseteq Taken(lift') /\ Taken(lift') # Taken(lift)
            \/ /\ lift'.pc = "loop" /\ lift.todo # <<>>
               /\ Taken(lift') = Taken(lift) /\ Len(lift'.todo) < Len(lift.todo)
            \/ /\ lift'.pc = "true" /\ lift.W = {} /\ lift.todo = <<>>
               /\ Taken(lift) = Range(lift.entered)]_vars

\* liftAlloc has returned true after creating a phi-node in a block that
\* is in the frontier of no defining block, only in the frontier of a
\* block that got a phi-node; a block of the frontier was met twice.
C30_Witness ==
    /\ lift.pc = "true"
    /\ \E v \in Range(lift.newPhis) :
          v \notin UNION {Frontier(lift.succs, b) : b \in lift.defblocks}
    /\ \E b \in Blocks : ~NoDuplicates(lift.df[b]) /\ b \in Range(lift.entered)
    /\ Len(lift.entered) > Cardinality(lift.defblocks)
====
